---- MODULE Spec2Model ----
(***************************************************************************)
(* Registry Lens: the request throttler and registry client of             *)
(* services/registryApi.js and the TTL cache of services/imageCache.js.    *)
(*                                                                         *)
(* JavaScript runs one job at a time: every action below is one            *)
(* synchronous run of code, from the point where a job is resumed to the   *)
(* next await (or to the end of the function).                             *)
(***************************************************************************)
EXTENDS Integers, Sequences, FiniteSets, TLC

\* ------------------------------------------------------------- bounds
MaxTasks == 3        \* calls of enqueueRequest in one run
MaxDirect == 1       \* direct (unqueued) HTTP calls of one kind in flight
TickStep == 50       \* ms by which one Tick advances the timers
MaxEntries == 2      \* entries localStorage holds in one run
MaxClockSteps == 2   \* advances of the wall clock in one run

\* ------------------------------------------------------------- constants
REQUEST_DELAY == 100

Null == "null"
Registries == {"https://reg.a"}
QueuedKinds == {"catalog", "tags", "manifest", "blob"}
DirectKinds == {"ping", "delete"}
AllKinds == QueuedKinds \cup DirectKinds

VARIABLES
    credentials,    \* RegistryApi.credentials: a registry URL, or Null
    memoryCredentials, \* CredentialStore.memoryCredentials: likewise
    requestQueue,   \* RegistryApi.requestQueue: entries {resolve, reject, requestFn}
    isProcessing,   \* RegistryApi.isProcessing
    loops,          \* the activations of processQueue suspended at an await
    tasks,          \* every requestFn ever passed to enqueueRequest, in call order
    promise,        \* the promise enqueueRequest returned for each of them
    direct,         \* HTTP calls in flight that request() issued outside the queue
    sinceEnd,       \* ms since a queued HTTP call last ended, saturated at REQUEST_DELAY
    startOrder,     \* history: the ids of the tasks started, in start order
    delays,         \* history: the number of inter-call delays waited out or begun
    lateEnqueue,    \* history: some enqueueRequest came after a task completed
    localStorage,   \* window.localStorage: key -> stored document
    now,            \* Date.now(), ms
    lastGet,        \* what the cache operation just performed returned (NoGet: not a get)
    justSaved,      \* history: the save just performed, while only the clock and a
                    \* get of its key came after it (NoSave: none)
    storageMode,    \* environment: "ok", "full" (setItem throws) or "denied" (any access throws)
    cacheThrew,     \* the cache operation just performed let an exception out to its caller
    lastClear,      \* history: the number of keys the clearAll just performed removed
                    \* (NoClear: not a clearAll)
    sessionStorage, \* window.sessionStorage['registry-credentials']: a registry URL, or Null
    state,          \* useRegistry.js: the reactive state
    calls,          \* the invocations of connect / reconnect / load* suspended at an await
    opQueue,        \* the suspended invocations whose throttled call has not started yet
    lastReturn,     \* history: what the invocation that just returned gave its caller
    invoked,        \* history: the number of calls of useRegistry functions so far
    run             \* one call of a function of the registry client, followed on its
                    \* own: its arguments, its locals and its position (NoRun: none)

credVars == <<credentials, memoryCredentials, sessionStorage>>

throttleVars == <<credVars, requestQueue, isProcessing, loops, tasks, promise,
                  direct, sinceEnd, startOrder, delays, lateEnqueue>>

cacheVars == <<localStorage, now, lastGet, justSaved, storageMode, cacheThrew,
               lastClear>>

orchVars == <<state, calls, opQueue, lastReturn, invoked, run>>

vars == <<throttleVars, cacheVars, orchVars>>

Min(a, b) == IF a < b THEN a ELSE b
Max(a, b) == IF a > b THEN a ELSE b

\* ------------------------------------------------------------- credentials
\* `this.credentials || credentialStore.getSync()`
GetCredentials == IF credentials # Null THEN credentials ELSE memoryCredentials

\* request() and getApiUrl() throw 'Registry URL not configured' before any fetch
Configured == GetCredentials # Null

\* saveCredentials sets the field and, before its first await,
\* credentialStore.save has set memoryCredentials and written sessionStorage
\* (no username or password, so the Credential Management API is not used)
SaveCredentials(url) ==
    /\ credentials' = url
    /\ memoryCredentials' = url
    /\ sessionStorage' = url
    /\ UNCHANGED <<requestQueue, isProcessing, loops, tasks, promise, direct,
                   sinceEnd, startOrder, delays, lateEnqueue, cacheVars, orchVars>>

\* clearCredentials likewise clears all three before its first await
ClearCredentials ==
    /\ credentials' = Null
    /\ memoryCredentials' = Null
    /\ sessionStorage' = Null
    /\ UNCHANGED <<requestQueue, isProcessing, loops, tasks, promise, direct,
                   sinceEnd, startOrder, delays, lateEnqueue, cacheVars, orchVars>>

\* ------------------------------------------------------------- throttler
\* where the drain loop stands when enqueueRequest is called
LoopPhase ==
    IF \E l \in loops : l.pc = "awaitTask" THEN "task"
    ELSE IF \E l \in loops : l.pc = "awaitDelay" THEN "delay"
    ELSE "idle"

\* A requestFn closure and the history of its call: kind is the endpoint the
\* closure requests (dropped with the closure once it has run), enqAt the
\* phase of the drain loop at the time of the enqueueRequest call.
NewTask(kind) ==
    [kind |-> kind, status |-> "queued", http |-> FALSE, hung |-> FALSE,
     outcome |-> "none", enqAt |-> LoopPhase]

Pending == [state |-> "pending", of |-> 0]

\* faulty variant: requestQueue.pop(): the newest entry first
DequeueLast(q) == [entry |-> q[Len(q)], rest |-> SubSeq(q, 1, Len(q) - 1)]

\* requestQueue.shift()
Dequeue(q) == [entry |-> Head(q), rest |-> Tail(q)]

\* requestFn(): request() runs up to its fetch; without a registry URL it has
\* thrown by then and no HTTP call is issued
StartTask(t) == [t EXCEPT !.status = "running", !.http = Configured]

\* faulty variant: the early return tests the queue alone, not isProcessing
ProcessQueueReturnsIgnoresFlag(processing, q) == Len(q) = 0

\* the early return of processQueue
ProcessQueueReturns(processing, q) == processing \/ Len(q) = 0

\* faulty variant: the delay is awaited after every call
AlwaysDelay(q) == TRUE

\* `if (this.requestQueue.length > 0) await delay`
NeedsDelay(q) == Len(q) > 0

\* resolve(result) / reject(error) of the entry that was dequeued with the task
Settle(entry, out) ==
    IF out = "ok" THEN [state |-> "resolved", of |-> entry.requestFn]
                  ELSE [state |-> "rejected", of |-> entry.requestFn]

\* faulty variant: isProcessing is never set while the loop runs
LoopHeadNoFlag(q, ts, ls) ==
    IF Len(q) > 0
    THEN LET d == Dequeue(q)
             id == d.entry.requestFn
         IN /\ requestQueue' = d.rest
            /\ tasks' = [ts EXCEPT ![id] = StartTask(@)]
            /\ loops' = ls \cup {[pc |-> "awaitTask", cur |-> d.entry, timer |-> 0]}
            /\ isProcessing' = FALSE
            /\ startOrder' = Append(startOrder, id)
    ELSE /\ requestQueue' = q
         /\ tasks' = ts
         /\ loops' = ls
         /\ isProcessing' = FALSE
         /\ UNCHANGED startOrder

\* faulty variant: isProcessing is not cleared when the loop ends
LoopHeadKeepsFlag(q, ts, ls) ==
    IF Len(q) > 0
    THEN LET d == Dequeue(q)
             id == d.entry.requestFn
         IN /\ requestQueue' = d.rest
            /\ tasks' = [ts EXCEPT ![id] = StartTask(@)]
            /\ loops' = ls \cup {[pc |-> "awaitTask", cur |-> d.entry, timer |-> 0]}
            /\ isProcessing' = TRUE
            /\ startOrder' = Append(startOrder, id)
    ELSE /\ requestQueue' = q
         /\ tasks' = ts
         /\ loops' = ls
         /\ isProcessing' = TRUE
         /\ UNCHANGED startOrder

\* The head of the while loop: with a non-empty queue, shift an entry, call its
\* requestFn and suspend awaiting it; otherwise leave the loop and clear
\* isProcessing.  `ls` are the other suspended activations.
LoopHead(q, ts, ls) ==
    IF Len(q) > 0
    THEN LET d == Dequeue(q)
             id == d.entry.requestFn
         IN /\ requestQueue' = d.rest
            /\ tasks' = [ts EXCEPT ![id] = StartTask(@)]
            /\ loops' = ls \cup {[pc |-> "awaitTask", cur |-> d.entry, timer |-> 0]}
            /\ isProcessing' = TRUE
            /\ startOrder' = Append(startOrder, id)
    ELSE /\ requestQueue' = q
         /\ tasks' = ts
         /\ loops' = ls
         /\ isProcessing' = FALSE
         /\ UNCHANGED startOrder

\* enqueueRequest(requestFn): push, then processQueue() up to its first await
EnqueueRequest(kind) ==
    /\ Len(tasks) < MaxTasks
    /\ LET id == Len(tasks) + 1
           q1 == Append(requestQueue, [requestFn |-> id, waiter |-> id])
           t1 == Append(tasks, NewTask(kind))
       IN /\ promise' = Append(promise, Pending)
          /\ lateEnqueue' = (lateEnqueue \/ \E i \in 1..Len(tasks) : tasks[i].status = "done")
          /\ IF ProcessQueueReturns(isProcessing, q1)
             THEN /\ requestQueue' = q1
                  /\ tasks' = t1
                  /\ UNCHANGED <<isProcessing, loops, startOrder>>
             ELSE LoopHead(q1, t1, loops)
    /\ UNCHANGED <<credVars, direct, sinceEnd, delays, cacheVars, orchVars>>

\* faulty variant: no try/catch round `await requestFn()`: a failing task ends the
\* activation with its exception, reject is never called, isProcessing stays set
TaskCompletesNoCatch(l, out) ==
    /\ l \in loops
    /\ l.pc = "awaitTask"
    /\ LET id == l.cur.requestFn IN
       /\ ~tasks[id].hung
       /\ IF tasks[id].http THEN out \in {"ok", "err"} ELSE out = "config"
       /\ sinceEnd' = IF tasks[id].http THEN 0 ELSE sinceEnd
       /\ LET ts == [tasks EXCEPT ![id] = [@ EXCEPT !.status = "done", !.http = FALSE,
                                                    !.outcome = out, !.kind = "none"]]
          IN IF out # "ok"
             THEN /\ loops' = loops \ {l}
                  /\ tasks' = ts
                  /\ UNCHANGED <<promise, requestQueue, isProcessing, startOrder, delays>>
             ELSE /\ promise' = [promise EXCEPT ![l.cur.waiter] = Settle(l.cur, out)]
                  /\ IF NeedsDelay(requestQueue)
                     THEN /\ loops' = (loops \ {l}) \cup
                                {[pc |-> "awaitDelay", cur |-> l.cur, timer |-> REQUEST_DELAY]}
                          /\ tasks' = ts
                          /\ delays' = delays + 1
                          /\ UNCHANGED <<requestQueue, isProcessing, startOrder>>
                     ELSE /\ LoopHead(requestQueue, ts, loops \ {l})
                          /\ UNCHANGED delays
    /\ UNCHANGED <<credVars, direct, lateEnqueue, cacheVars, orchVars>>

\* The awaited requestFn() settles and the loop resumes: resolve or reject the
\* waiter, then either start the inter-call delay or go round the loop.
TaskCompletes(l, out) ==
    /\ l \in loops
    /\ l.pc = "awaitTask"
    /\ LET id == l.cur.requestFn IN
       /\ ~tasks[id].hung
       /\ IF tasks[id].http THEN out \in {"ok", "err"} ELSE out = "config"
       /\ promise' = [promise EXCEPT ![l.cur.waiter] = Settle(l.cur, out)]
       /\ sinceEnd' = IF tasks[id].http THEN 0 ELSE sinceEnd
       /\ LET ts == [tasks EXCEPT ![id] = [@ EXCEPT !.status = "done", !.http = FALSE,
                                                    !.outcome = out, !.kind = "none"]]
          IN IF NeedsDelay(requestQueue)
             THEN /\ loops' = (loops \ {l}) \cup
                                {[pc |-> "awaitDelay", cur |-> l.cur, timer |-> REQUEST_DELAY]}
                  /\ tasks' = ts
                  /\ delays' = delays + 1
                  /\ UNCHANGED <<requestQueue, isProcessing, startOrder>>
             ELSE /\ LoopHead(requestQueue, ts, loops \ {l})
                  /\ UNCHANGED delays
    /\ UNCHANGED <<credVars, direct, lateEnqueue, cacheVars, orchVars>>

\* faulty variant: after the delay the activation ends instead of going round
\* the loop
DelayExpiresOnce(l) ==
    /\ l \in loops
    /\ l.pc = "awaitDelay"
    /\ l.timer = 0
    /\ loops' = loops \ {l}
    /\ isProcessing' = FALSE
    /\ UNCHANGED <<credVars, requestQueue, tasks, startOrder, promise, direct, sinceEnd,
                   delays, lateEnqueue, cacheVars, orchVars>>

\* setTimeout(r, REQUEST_DELAY) fires and the loop goes round
DelayExpires(l) ==
    /\ l \in loops
    /\ l.pc = "awaitDelay"
    /\ l.timer = 0
    /\ LoopHead(requestQueue, tasks, loops \ {l})
    /\ UNCHANGED <<credVars, promise, direct, sinceEnd, delays, lateEnqueue,
                   cacheVars, orchVars>>

\* The network never answers the fetch of the running task: there is no timeout
\* and no cancellation, so its promise stays pending for good.
Hang(l) ==
    /\ l \in loops
    /\ l.pc = "awaitTask"
    /\ tasks[l.cur.requestFn].http
    /\ ~tasks[l.cur.requestFn].hung
    /\ tasks' = [tasks EXCEPT ![l.cur.requestFn] = [@ EXCEPT !.hung = TRUE]]
    /\ UNCHANGED <<credVars, requestQueue, isProcessing, loops, promise, direct,
                   sinceEnd, startOrder, delays, lateEnqueue, cacheVars, orchVars>>

\* Time passes: running timers count down, the time since the last call grows.
Tick ==
    /\ loops' = {[l EXCEPT !.timer = Max(0, l.timer - TickStep)] : l \in loops}
    /\ sinceEnd' = Min(REQUEST_DELAY, sinceEnd + TickStep)
    /\ UNCHANGED <<credVars, requestQueue, isProcessing, tasks, promise, direct,
                   startOrder, delays, lateEnqueue, cacheVars, orchVars>>

\* ------------------------------------------------------------- registry client
\* request(endpoint) called directly: the fetch is issued at once
DirectRequest(kind) ==
    /\ direct[kind] < MaxDirect
    /\ direct' = IF Configured THEN [direct EXCEPT ![kind] = @ + 1] ELSE direct
    /\ UNCHANGED <<credVars, requestQueue, isProcessing, loops, tasks, promise,
                   sinceEnd, startOrder, delays, lateEnqueue, cacheVars, orchVars>>

\* the response (or network error) of a direct call arrives
DirectCompletes(kind) ==
    /\ direct[kind] > 0
    /\ direct' = [direct EXCEPT ![kind] = @ - 1]
    /\ UNCHANGED <<credVars, requestQueue, isProcessing, loops, tasks, promise,
                   sinceEnd, startOrder, delays, lateEnqueue, cacheVars, orchVars>>

TestConnection == DirectRequest("ping")

\* one page of getAllRepositories
GetCatalogPage == EnqueueRequest("catalog")

GetTags == EnqueueRequest("tags")

GetManifest == EnqueueRequest("manifest")

\* faulty variant: getBlob calls request() without enqueueRequest
GetBlobDirect == DirectRequest("blob")

GetBlob == EnqueueRequest("blob")

\* faulty variant: deleteManifest goes through enqueueRequest like the reads
DeleteManifestQueued == EnqueueRequest("delete")

DeleteManifest == DirectRequest("delete")

\* ------------------------------------------------------------- cache store
CACHE_PREFIX == "registry_lens_cache:"
CACHE_TTL == 24 * 60 * 60 * 1000
IMAGE_INFO == "image_info"
TAGS == "tags"
REPOSITORIES == "repositories"

Repositories == {"app", "lib"}
TagNames == {"v1"}
Values == {"x", "y"}          \* the payloads: opaque to the cache
ClockSteps == {1, CACHE_TTL}  \* ms by which the clock is seen to advance

\* ImageCache.getKey
GetKey(type, identifier) == CACHE_PREFIX \o type \o ":" \o identifier

ImageInfoKey(repository, tag) == GetKey(IMAGE_INFO, repository \o ":" \o tag)
TagsKey(repository) == GetKey(TAGS, repository)
RepositoriesKey == GetKey(REPOSITORIES, "list")

DateNow == now

\* JSON.stringify({value, timestamp}) and JSON.parse of the stored text
Stringify(data) == [json |-> data]
Parse(text) == text.json

\* localStorage.setItem / removeItem / getItem
SetItem(store, key, text) ==
    [k \in DOMAIN store \cup {key} |-> IF k = key THEN text ELSE store[k]]
RemoveItem(store, key) == [k \in DOMAIN store \ {key} |-> store[k]]
HasItem(store, key) == key \in DOMAIN store
GetItem(store, key) == store[key]

\* faulty variant: an entry exactly CACHE_TTL old counts as expired
ExpiredAtTtl(data, t) == t - data.timestamp >= CACHE_TTL

\* `Date.now() - data.timestamp > CACHE_TTL`
Expired(data, t) == t - data.timestamp > CACHE_TTL

NoGet == [key |-> Null, result |-> Null, at |-> 0, written |-> -1]
NoSave == [key |-> Null, value |-> Null, at |-> 0]
NoClear == -1
NoReturn == [fn |-> "none", arg |-> Null, value |-> Null, network |-> 0, at |-> 0]

\* faulty variant: the entry is stamped with 0 instead of the current time
WrapUnstamped(value) == [value |-> value, timestamp |-> 0]

\* `{ value: ..., timestamp: Date.now() }`
Wrap(value) == [value |-> value, timestamp |-> DateNow]

\* the keys of other parts of the page in the same localStorage
THEME == "theme"
Themes == {"dark", "light"}

\* a stored text that is not a document of the cache
Raw(text) == [raw |-> text]
Garbage == Raw("{")

\* JSON.parse throws a SyntaxError on such a text
ParseThrows(text) == "json" \notin DOMAIN text

\* `key.startsWith(CACHE_PREFIX)`
StartsWith(key, prefix) ==
    /\ Len(key) >= Len(prefix)
    /\ SubSeq(key, 1, Len(prefix)) = prefix

CacheKeysOf(store) == {k \in DOMAIN store : StartsWith(k, CACHE_PREFIX)}

\* setItem throws QuotaExceededError on a full storage; every access throws
\* when the storage is denied to the page
StorageModes == {"ok", "full", "denied"}
SetItemThrows == storageMode \in {"full", "denied"}
AccessThrows == storageMode = "denied"

\* faulty variant: no try/catch around the body
Rethrown(thrown) == thrown

\* `try { ... } catch (e) { console.warn(...) }` around every body: what the
\* body threw does not reach the caller
Caught(thrown) == FALSE

\* save*: wrap the value with the current time and store it
SaveOutcome(store, key, value) ==
    IF SetItemThrows
    THEN [store |-> store, thrown |-> TRUE]
    ELSE [store |-> SetItem(store, key, Stringify(Wrap(value))), thrown |-> FALSE]

\* clear*: remove the one key
ClearOutcome(store, key) ==
    IF AccessThrows
    THEN [store |-> store, thrown |-> TRUE]
    ELSE [store |-> RemoveItem(store, key), thrown |-> FALSE]

\* faulty variant: a read that finds its entry expired also removes every
\* other expired entry of the cache
GetOutcomeSweeping(store, key) ==
    IF AccessThrows
    THEN [store |-> store, result |-> Null, written |-> -1, thrown |-> TRUE]
    ELSE IF ~HasItem(store, key)
    THEN [store |-> store, result |-> Null, written |-> -1, thrown |-> FALSE]
    ELSE IF ParseThrows(GetItem(store, key))
    THEN [store |-> store, result |-> Null, written |-> -1, thrown |-> TRUE]
    ELSE LET data == Parse(GetItem(store, key)) IN
         IF Expired(data, DateNow)
         THEN [store |-> [k \in {j \in DOMAIN store :
                                   \/ ~StartsWith(j, CACHE_PREFIX)
                                   \/ ParseThrows(store[j])
                                   \/ ~Expired(Parse(store[j]), DateNow)}
                          |-> store[k]],
               result |-> Null, written |-> data.timestamp, thrown |-> FALSE]
         ELSE [store |-> store, result |-> data.value,
               written |-> data.timestamp, thrown |-> FALSE]

\* get*: null when the key is absent; when the entry has expired, clear it
\* and return null; otherwise its value; null from the catch block
GetOutcome(store, key) ==
    IF AccessThrows
    THEN [store |-> store, result |-> Null, written |-> -1, thrown |-> TRUE]
    ELSE IF ~HasItem(store, key)
    THEN [store |-> store, result |-> Null, written |-> -1, thrown |-> FALSE]
    ELSE IF ParseThrows(GetItem(store, key))
    THEN [store |-> store, result |-> Null, written |-> -1, thrown |-> TRUE]
    ELSE LET data == Parse(GetItem(store, key)) IN
         IF Expired(data, DateNow)
         THEN [store |-> ClearOutcome(store, key).store, result |-> Null,
               written |-> data.timestamp, thrown |-> FALSE]
         ELSE [store |-> store, result |-> data.value,
               written |-> data.timestamp, thrown |-> FALSE]

\* faulty variant: clearAll empties the whole localStorage
ClearAllOutcomeEverything(store) ==
    IF AccessThrows
    THEN [store |-> store, thrown |-> TRUE]
    ELSE [store |-> <<>>, thrown |-> FALSE]

\* clearAll: remove every key that starts with CACHE_PREFIX
ClearAllOutcome(store) ==
    IF AccessThrows
    THEN [store |-> store, thrown |-> TRUE]
    ELSE [store |-> [k \in DOMAIN store \ CacheKeysOf(store) |-> store[k]],
          thrown |-> FALSE]

\* getStats: the keys that start with CACHE_PREFIX and their number, whatever
\* the age of their entries; nothing from the catch block. (size and sizeKB,
\* the lengths of the stored texts, are left out.)
getStats(store) ==
    IF AccessThrows
    THEN [count |-> 0, keys |-> {}]
    ELSE [count |-> Cardinality(CacheKeysOf(store)), keys |-> CacheKeysOf(store)]

CacheSave(key, value) ==
    /\ (key \in DOMAIN localStorage \/ Cardinality(CacheKeysOf(localStorage)) < MaxEntries)
    /\ localStorage' = SaveOutcome(localStorage, key, value).store
    /\ cacheThrew' = Caught(SaveOutcome(localStorage, key, value).thrown)
    /\ lastGet' = NoGet
    /\ justSaved' = [key |-> key, value |-> value, at |-> DateNow]
    /\ lastClear' = NoClear
    /\ UNCHANGED <<now, storageMode, throttleVars, orchVars>>

CacheClear(key) ==
    /\ localStorage' = ClearOutcome(localStorage, key).store
    /\ cacheThrew' = Caught(ClearOutcome(localStorage, key).thrown)
    /\ lastGet' = NoGet
    /\ justSaved' = NoSave
    /\ lastClear' = NoClear
    /\ UNCHANGED <<now, storageMode, throttleVars, orchVars>>

CacheGet(key) ==
    LET out == GetOutcome(localStorage, key) IN
    /\ localStorage' = out.store
    /\ cacheThrew' = Caught(out.thrown)
    /\ lastGet' = [key |-> key, result |-> out.result, at |-> DateNow,
                   written |-> out.written]
    /\ lastClear' = NoClear
    /\ justSaved' = IF justSaved.key = key THEN justSaved ELSE NoSave
    /\ UNCHANGED <<now, storageMode, throttleVars, orchVars>>

SaveImageInfo(repository, tag, imageInfo) == CacheSave(ImageInfoKey(repository, tag), imageInfo)
CacheGetImageInfo(repository, tag) == CacheGet(ImageInfoKey(repository, tag))
SaveTags(repository, tags_) == CacheSave(TagsKey(repository), tags_)
CacheGetTags(repository) == CacheGet(TagsKey(repository))
SaveRepositories(repositories) == CacheSave(RepositoriesKey, repositories)
CacheGetRepositories == CacheGet(RepositoriesKey)
ClearImageInfo(repository, tag) == CacheClear(ImageInfoKey(repository, tag))
ClearTags(repository) == CacheClear(TagsKey(repository))
ClearRepositories == CacheClear(RepositoriesKey)

ClearAll ==
    /\ localStorage' = ClearAllOutcome(localStorage).store
    /\ cacheThrew' = Caught(ClearAllOutcome(localStorage).thrown)
    /\ lastGet' = NoGet
    /\ justSaved' = NoSave
    /\ lastClear' = Cardinality(DOMAIN localStorage \ DOMAIN localStorage')
    /\ UNCHANGED <<now, storageMode, throttleVars, orchVars>>

\* the wall clock advances between two jobs
AdvanceClock(d) ==
    /\ ((now + d) \div CACHE_TTL) + ((now + d) % CACHE_TTL) <= MaxClockSteps
    /\ now' = now + d
    /\ lastGet' = NoGet
    /\ lastClear' = NoClear
    /\ lastReturn' = NoReturn
    /\ UNCHANGED <<localStorage, justSaved, storageMode, cacheThrew, throttleVars,
                   state, calls, opQueue, invoked, run>>

\* App.vue toggleDarkMode: the page stores its theme preference
ToggleDarkMode(theme) ==
    /\ ~SetItemThrows
    /\ ~(HasItem(localStorage, THEME) /\ GetItem(localStorage, THEME) = Raw(theme))
    /\ localStorage' = SetItem(localStorage, THEME, Raw(theme))
    /\ lastGet' = NoGet
    /\ justSaved' = NoSave
    /\ lastClear' = NoClear
    /\ UNCHANGED <<now, storageMode, cacheThrew, throttleVars, orchVars>>

\* environment: the storage fills up, is denied to the page, or recovers
StorageChanges(mode) ==
    /\ mode # storageMode
    /\ storageMode' = mode
    /\ lastGet' = NoGet
    /\ justSaved' = NoSave
    /\ lastClear' = NoClear
    /\ UNCHANGED <<localStorage, now, cacheThrew, throttleVars, orchVars>>

\* environment: a document of the cache is damaged (cut short, or rewritten
\* by another script of the origin)
DocumentDamaged(key) ==
    /\ ~AccessThrows
    /\ HasItem(localStorage, key)
    /\ StartsWith(key, CACHE_PREFIX)
    /\ GetItem(localStorage, key) # Garbage
    /\ localStorage' = SetItem(localStorage, key, Garbage)
    /\ lastGet' = NoGet
    /\ justSaved' = NoSave
    /\ lastClear' = NoClear
    /\ UNCHANGED <<now, storageMode, cacheThrew, throttleVars, orchVars>>

InitCache ==
    /\ localStorage = <<>>
    /\ now = 0
    /\ lastGet = NoGet
    /\ justSaved = NoSave
    /\ storageMode = "ok"
    /\ cacheThrew = FALSE
    /\ lastClear = NoClear

\* the cache on a storage that works
NextCache ==
    \/ \E r \in Repositories, t \in TagNames, v \in Values : SaveImageInfo(r, t, v)
    \/ \E r \in Repositories, t \in TagNames : CacheGetImageInfo(r, t)
    \/ \E r \in Repositories, v \in Values : SaveTags(r, v)
    \/ \E r \in Repositories : CacheGetTags(r)
    \/ \E v \in Values : SaveRepositories(v)
    \/ CacheGetRepositories
    \/ \E r \in Repositories, t \in TagNames : ClearImageInfo(r, t)
    \/ \E r \in Repositories : ClearTags(r)
    \/ ClearRepositories
    \/ \E d \in ClockSteps : AdvanceClock(d)

\* the cache on a storage that works, with clearAll; one payload, since the
\* age of an entry does not depend on what it holds
NextExpiry ==
    \/ \E r \in Repositories, t \in TagNames : SaveImageInfo(r, t, "x")
    \/ \E r \in Repositories, t \in TagNames : CacheGetImageInfo(r, t)
    \/ \E r \in Repositories : SaveTags(r, "x")
    \/ \E r \in Repositories : CacheGetTags(r)
    \/ SaveRepositories("x")
    \/ CacheGetRepositories
    \/ \E r \in Repositories, t \in TagNames : ClearImageInfo(r, t)
    \/ \E r \in Repositories : ClearTags(r)
    \/ ClearRepositories
    \/ ClearAll
    \/ \E d \in ClockSteps : AdvanceClock(d)

\* the cache used with names that are opaque strings, within one instant
KeyRepositories == {"a", "a:b"}
KeyTags == {"c", "b:c"}

NextKeys ==
    \/ \E r \in KeyRepositories, t \in KeyTags, v \in Values : SaveImageInfo(r, t, v)
    \/ \E r \in KeyRepositories, t \in KeyTags : CacheGetImageInfo(r, t)
    \/ \E r \in KeyRepositories, v \in Values : SaveTags(r, v)
    \/ \E r \in KeyRepositories : CacheGetTags(r)
    \/ \E v \in Values : SaveRepositories(v)
    \/ CacheGetRepositories
    \/ \E r \in KeyRepositories, t \in KeyTags : ClearImageInfo(r, t)
    \/ \E r \in KeyRepositories : ClearTags(r)
    \/ ClearRepositories

\* the cache next to the rest of the page, on a storage that may fail, within
\* one instant of the clock
NextStorage ==
    \/ \E r \in Repositories, t \in TagNames, v \in Values : SaveImageInfo(r, t, v)
    \/ \E r \in Repositories, t \in TagNames : CacheGetImageInfo(r, t)
    \/ \E r \in Repositories, v \in Values : SaveTags(r, v)
    \/ \E r \in Repositories : CacheGetTags(r)
    \/ \E v \in Values : SaveRepositories(v)
    \/ CacheGetRepositories
    \/ \E r \in Repositories, t \in TagNames : ClearImageInfo(r, t)
    \/ \E r \in Repositories : ClearTags(r)
    \/ ClearRepositories
    \/ ClearAll
    \/ \E theme \in Themes : ToggleDarkMode(theme)
    \/ \E mode \in StorageModes : StorageChanges(mode)
    \/ \E key \in DOMAIN localStorage : DocumentDamaged(key)

\* ------------------------------------------------------------- orchestration
\* useRegistry.js on a browser without the Credential Management API: the
\* credential store then never suspends, and an invocation suspends only at a
\* call of the registry client.
MaxCalls == 2        \* invocations suspended at one time
MaxInvocations == 4  \* calls of connect / reconnect / disconnect / load* / clear* in one run

OrchRepositories == {"app"}
OrchRegistries == {"https://reg.a", "https://reg.b"}
OrchClockSteps == {CACHE_TTL}

EmptyList == "[]"
EmptyString == ""
NETWORK_ERROR == "Registry API error: 500"
NOT_CONFIGURED == "Registry URL not configured"
QUOTA_EXCEEDED == "QuotaExceededError"

\* `${repository}:${tag}`
ImageKey(repository, tag) == repository \o ":" \o tag

\* imageInfo.manifest
ManifestOf(imageInfo) == "manifest of " \o imageInfo

\* what a call of the registry client settles with
Resolved(value) == [ok |-> TRUE, value |-> value]
Rejected(message) == [ok |-> FALSE, error |-> message]
\* the registries: what one holds changes with time only, so that an answer
\* tells the registry asked and the time of the call
Content(url) == "content of " \o url \o " at " \o ToString(now)
Outcome(url, ok) == IF ok THEN Resolved(Content(url)) ELSE Rejected(NETWORK_ERROR)

InitialState ==
    [isInitializing |-> TRUE, isConnected |-> FALSE, isLoading |-> FALSE,
     error |-> Null, repositories |-> EmptyList, selectedRepo |-> Null,
     tags |-> <<>>, manifests |-> <<>>, imageInfos |-> <<>>,
     filter |-> EmptyString, registryUrl |-> Null]

Slots == 1..MaxCalls
NoCall ==
    [fn |-> "none", arg |-> Null, awaits |-> "none", sent |-> FALSE, url |-> Null,
     enqueuedWith |-> Null, network |-> 0]
Free == {c \in Slots : calls[c] = NoCall}
FreeSlot == CHOOSE c \in Free : \A d \in Free : c <= d

\* the return of an invocation to its caller
Return(fn, arg, value, network) ==
    [fn |-> fn, arg |-> arg, value |-> value, network |-> network, at |-> DateNow]

\* the throttler has nothing queued and no queued call in flight, so that
\* enqueueRequest starts the call at once
ThrottlerIdle ==
    /\ opQueue = <<>>
    /\ \A c \in Slots : ~(calls[c].sent /\ calls[c].awaits # "ping")

\* enqueueRequest as its caller sees it: the call is started at once
\* ("sent"), waits behind others ("queued"), or, started without a registry
\* URL, is rejected by request() before any fetch ("rejected")
Enqueued ==
    IF ~ThrottlerIdle THEN "queued"
    ELSE IF Configured THEN "sent" ELSE "rejected"

\* ---- the bodies of the load functions, from the point where the call of the
\* ---- registry client has settled with `out`; each gives the new state, the
\* ---- new localStorage and the value returned

\* faulty variant: the fetched tags are not written to the cache
AfterGetTagsNoSave(st, store, repository, out) ==
    IF out.ok
    THEN [state |-> [st EXCEPT !.tags = SetItem(st.tags, repository, out.value)],
          store |-> store,
          ret |-> out.value]
    ELSE [state |-> [st EXCEPT !.tags = SetItem(st.tags, repository, EmptyList)],
          store |-> store,
          ret |-> EmptyList]

\* loadTags, lines 145-153
AfterGetTags(st, store, repository, out) ==
    IF out.ok
    THEN [state |-> [st EXCEPT !.tags = SetItem(st.tags, repository, out.value)],
          store |-> SaveOutcome(store, TagsKey(repository), out.value).store,
          ret |-> out.value]
    ELSE [state |-> [st EXCEPT !.tags = SetItem(st.tags, repository, EmptyList)],
          store |-> store,
          ret |-> EmptyList]

\* an image info without config, as the orchestration holds it
DEGRADED == "image info, config null, created null"

\* faulty variant: an image info without config is not written to the cache
AfterGetImageInfoChecked(st, store, key, out) ==
    IF out.ok
    THEN [state |-> [st EXCEPT
                       !.imageInfos = SetItem(st.imageInfos, key, out.value),
                       !.manifests = SetItem(st.manifests, key, ManifestOf(out.value))],
          store |-> IF out.value = DEGRADED THEN store
                    ELSE SaveOutcome(store, GetKey(IMAGE_INFO, key), out.value).store,
          ret |-> out.value]
    ELSE [state |-> st, store |-> store, ret |-> Null]

\* loadImageInfo, lines 186-194
AfterGetImageInfo(st, store, key, out) ==
    IF out.ok
    THEN [state |-> [st EXCEPT
                       !.imageInfos = SetItem(st.imageInfos, key, out.value),
                       !.manifests = SetItem(st.manifests, key, ManifestOf(out.value))],
          store |-> SaveOutcome(store, GetKey(IMAGE_INFO, key), out.value).store,
          ret |-> out.value]
    ELSE [state |-> st, store |-> store, ret |-> Null]

\* loadRepositories, lines 124-130; it returns undefined on every path
AfterGetAllRepositories(st, store, out) ==
    IF out.ok
    THEN [state |-> [st EXCEPT !.repositories = out.value, !.isLoading = FALSE],
          store |-> SaveOutcome(store, RepositoriesKey, out.value).store,
          ret |-> Null]
    ELSE [state |-> [st EXCEPT !.error = out.error, !.isLoading = FALSE],
          store |-> store,
          ret |-> Null]

\* ---- the bodies of the load functions up to their first await:
\* ---- `done` says that the function returned without suspending

\* faulty variant: the cache is not consulted
BeginLoadRepositoriesNoCache(st, store) ==
    LET st1 == [st EXCEPT !.isLoading = TRUE, !.error = Null]
    IN  IF Enqueued = "rejected"
        THEN LET r == AfterGetAllRepositories(st1, store, Rejected(NOT_CONFIGURED))
             IN  [done |-> TRUE, network |-> 1, store |-> r.store, ret |-> r.ret,
                  state |-> r.state]
        ELSE [done |-> FALSE, network |-> 1, store |-> store, ret |-> Null,
              state |-> st1]

\* loadRepositories, lines 112-124
BeginLoadRepositories(st, store) ==
    LET st1 == [st EXCEPT !.isLoading = TRUE, !.error = Null]
        cached == GetOutcome(store, RepositoriesKey)
    IN  IF cached.result # Null
        THEN [done |-> TRUE, network |-> 0, store |-> cached.store, ret |-> Null,
              state |-> [st1 EXCEPT !.repositories = cached.result, !.isLoading = FALSE]]
        ELSE IF Enqueued = "rejected"
        THEN LET r == AfterGetAllRepositories(st1, cached.store, Rejected(NOT_CONFIGURED))
             IN  [done |-> TRUE, network |-> 1, store |-> r.store, ret |-> r.ret,
                  state |-> r.state]
        ELSE [done |-> FALSE, network |-> 1, store |-> cached.store, ret |-> Null,
              state |-> st1]

\* faulty variant: a load of a key that is being fetched starts no second fetch
BeginLoadTagsOnce(st, store, repository) ==
    IF repository \in DOMAIN st.tags
    THEN [done |-> TRUE, network |-> 0, store |-> store, state |-> st,
          ret |-> st.tags[repository]]
    ELSE LET cached == GetOutcome(store, TagsKey(repository))
         IN  IF cached.result # Null
             THEN [done |-> TRUE, network |-> 0, store |-> cached.store,
                   ret |-> cached.result,
                   state |-> [st EXCEPT !.tags = SetItem(st.tags, repository,
                                                         cached.result)]]
             ELSE IF \E c \in Slots : calls[c].fn = "loadTags" /\ calls[c].arg = repository
             THEN [done |-> TRUE, network |-> 0, store |-> cached.store, ret |-> Null,
                   state |-> st]
             ELSE IF Enqueued = "rejected"
             THEN LET r == AfterGetTags(st, cached.store, repository,
                                        Rejected(NOT_CONFIGURED))
                  IN  [done |-> TRUE, network |-> 1, store |-> r.store, ret |-> r.ret,
                       state |-> r.state]
             ELSE [done |-> FALSE, network |-> 1, store |-> cached.store, ret |-> Null,
                   state |-> st]

\* faulty variant: an empty list in memory counts as not loaded
BeginLoadTagsEmptyIsFalsy(st, store, repository) ==
    IF repository \in DOMAIN st.tags /\ st.tags[repository] # EmptyList
    THEN [done |-> TRUE, network |-> 0, store |-> store, state |-> st,
          ret |-> st.tags[repository]]
    ELSE LET cached == GetOutcome(store, TagsKey(repository))
         IN  IF cached.result # Null
             THEN [done |-> TRUE, network |-> 0, store |-> cached.store,
                   ret |-> cached.result,
                   state |-> [st EXCEPT !.tags = SetItem(st.tags, repository,
                                                         cached.result)]]
             ELSE IF Enqueued = "rejected"
             THEN LET r == AfterGetTags(st, cached.store, repository,
                                        Rejected(NOT_CONFIGURED))
                  IN  [done |-> TRUE, network |-> 1, store |-> r.store, ret |-> r.ret,
                       state |-> r.state]
             ELSE [done |-> FALSE, network |-> 1, store |-> cached.store, ret |-> Null,
                   state |-> st]

\* loadTags, lines 134-145
BeginLoadTags(st, store, repository) ==
    IF repository \in DOMAIN st.tags
    THEN [done |-> TRUE, network |-> 0, store |-> store, state |-> st,
          ret |-> st.tags[repository]]
    ELSE LET cached == GetOutcome(store, TagsKey(repository))
         IN  IF cached.result # Null
             THEN [done |-> TRUE, network |-> 0, store |-> cached.store,
                   ret |-> cached.result,
                   state |-> [st EXCEPT !.tags = SetItem(st.tags, repository,
                                                         cached.result)]]
             ELSE IF Enqueued = "rejected"
             THEN LET r == AfterGetTags(st, cached.store, repository,
                                        Rejected(NOT_CONFIGURED))
                  IN  [done |-> TRUE, network |-> 1, store |-> r.store, ret |-> r.ret,
                       state |-> r.state]
             ELSE [done |-> FALSE, network |-> 1, store |-> cached.store, ret |-> Null,
                   state |-> st]

\* faulty variant: the cache is asked first, whatever state.imageInfos holds
BeginLoadImageInfoCacheFirst(st, store, repository, tag) ==
    LET key == ImageKey(repository, tag)
        cached == GetOutcome(store, ImageInfoKey(repository, tag))
    IN  IF cached.result # Null
        THEN [done |-> TRUE, network |-> 0, store |-> cached.store,
              ret |-> cached.result,
              state |-> [st EXCEPT
                           !.imageInfos = SetItem(st.imageInfos, key, cached.result),
                           !.manifests = SetItem(st.manifests, key,
                                                 ManifestOf(cached.result))]]
        ELSE IF Enqueued = "rejected"
        THEN LET r == AfterGetImageInfo(st, cached.store, key, Rejected(NOT_CONFIGURED))
             IN  [done |-> TRUE, network |-> 1, store |-> r.store, ret |-> r.ret,
                  state |-> r.state]
        ELSE [done |-> FALSE, network |-> 1, store |-> cached.store, ret |-> Null,
              state |-> st]

\* loadImageInfo, lines 173-186
BeginLoadImageInfo(st, store, repository, tag) ==
    LET key == ImageKey(repository, tag) IN
    IF key \in DOMAIN st.imageInfos
    THEN [done |-> TRUE, network |-> 0, store |-> store, state |-> st,
          ret |-> st.imageInfos[key]]
    ELSE LET cached == GetOutcome(store, ImageInfoKey(repository, tag))
         IN  IF cached.result # Null
             THEN [done |-> TRUE, network |-> 0, store |-> cached.store,
                   ret |-> cached.result,
                   state |-> [st EXCEPT
                                !.imageInfos = SetItem(st.imageInfos, key, cached.result),
                                !.manifests = SetItem(st.manifests, key,
                                                      ManifestOf(cached.result))]]
             ELSE IF Enqueued = "rejected"
             THEN LET r == AfterGetImageInfo(st, cached.store, key,
                                             Rejected(NOT_CONFIGURED))
                  IN  [done |-> TRUE, network |-> 1, store |-> r.store, ret |-> r.ret,
                       state |-> r.state]
             ELSE [done |-> FALSE, network |-> 1, store |-> cached.store, ret |-> Null,
                   state |-> st]

\* ---- how connect and reconnect end
\* connect, line 48 and `finally`
ConnectSucceeds(st) == [st EXCEPT !.isLoading = FALSE]

\* faulty variant: the outer `finally` of reconnect is missing
InitializationPending(st) == st

\* reconnect, lines 92-95
InitializationComplete(st) == [st EXCEPT !.isInitializing = FALSE]

\* reconnect, lines 88-95: both `finally`
ReconnectEnds(st) == InitializationComplete([st EXCEPT !.isLoading = FALSE])

\* faulty variant: disconnect forgets the tags
DisconnectedKeepsTags(st) ==
    [st EXCEPT !.isConnected = FALSE, !.repositories = EmptyList,
               !.manifests = <<>>, !.imageInfos = <<>>,
               !.selectedRepo = Null, !.filter = EmptyString, !.registryUrl = Null]

\* disconnect, lines 100-108
Disconnected(st) ==
    [st EXCEPT !.isConnected = FALSE, !.repositories = EmptyList,
               !.tags = <<>>, !.manifests = <<>>, !.imageInfos = <<>>,
               !.selectedRepo = Null, !.filter = EmptyString, !.registryUrl = Null]

\* what the function `fn` returns once its loadRepositories part is over
EndOf(fn, st) ==
    IF fn = "connect" THEN [state |-> ConnectSucceeds(st), ret |-> [success |-> TRUE]]
    ELSE IF fn = "reconnect" THEN [state |-> ReconnectEnds(st), ret |-> TRUE]
    ELSE [state |-> st, ret |-> Null]

\* ---- the frame of the orchestration actions
CacheHistoryReset ==
    /\ lastGet' = NoGet
    /\ justSaved' = NoSave
    /\ lastClear' = NoClear
    /\ cacheThrew' = FALSE

\* a call of a function of useRegistry by the page
Invoke ==
    /\ invoked < MaxInvocations
    /\ invoked' = invoked + 1

OrchFrame ==
    /\ CacheHistoryReset
    /\ UNCHANGED <<now, storageMode, requestQueue, isProcessing, loops, tasks, promise,
                   direct, sinceEnd, startOrder, delays, lateEnqueue, run>>

\* the value `fn` returns when the load function in it returns `ret`
Returned(fn, st, ret) ==
    IF fn \in {"connect", "reconnect"} THEN EndOf(fn, st).ret ELSE ret

\* the body of a load function after one of its two parts: the invocation
\* `c` of `fn`, which has made `network` calls before, returns, or suspends
\* awaiting `op`
Proceed(c, fn, arg, op, network, b) ==
    /\ localStorage' = b.store
    /\ IF b.done
       THEN /\ state' = EndOf(fn, b.state).state
            /\ lastReturn' = Return(fn, arg, Returned(fn, b.state, b.ret),
                                    network + b.network)
            /\ calls' = [calls EXCEPT ![c] = NoCall]
            /\ UNCHANGED opQueue
       ELSE /\ state' = b.state
            /\ lastReturn' = NoReturn
            /\ calls' = [calls EXCEPT ![c] =
                            [fn |-> fn, arg |-> arg, awaits |-> op,
                             sent |-> (Enqueued = "sent"),
                             url |-> IF Enqueued = "sent" THEN GetCredentials ELSE Null,
                             enqueuedWith |-> GetCredentials,
                             network |-> network + b.network]]
            /\ opQueue' = IF Enqueued = "sent" THEN opQueue ELSE Append(opQueue, c)

\* the part of a load function that follows the call `call` awaited
After(call, st, store, out) ==
    IF call.awaits = "tags" THEN AfterGetTags(st, store, call.arg, out)
    ELSE IF call.awaits = "imageInfo" THEN AfterGetImageInfo(st, store, call.arg, out)
    ELSE AfterGetAllRepositories(st, store, out)

\* ---- the actions of the caller
LoadRepositories ==
    /\ Invoke
    /\ Free # {}
    /\ Proceed(FreeSlot, "loadRepositories", Null, "catalog", 0,
               BeginLoadRepositories(state, localStorage))
    /\ OrchFrame
    /\ UNCHANGED credVars

LoadTags(repository) ==
    /\ Invoke
    /\ Free # {}
    /\ Proceed(FreeSlot, "loadTags", repository, "tags", 0,
               BeginLoadTags(state, localStorage, repository))
    /\ OrchFrame
    /\ UNCHANGED credVars

LoadImageInfo(repository, tag) ==
    /\ Invoke
    /\ Free # {}
    /\ Proceed(FreeSlot, "loadImageInfo", ImageKey(repository, tag), "imageInfo", 0,
               BeginLoadImageInfo(state, localStorage, repository, tag))
    /\ OrchFrame
    /\ UNCHANGED credVars

\* connect, lines 35-42: the credentials are saved and the reachability check
\* is sent; when sessionStorage.setItem throws, the catch block runs at once
Connect(registryUrl, saveThrows) ==
    /\ Invoke
    /\ Free # {}
    /\ IF saveThrows
       THEN /\ state' = [state EXCEPT !.error = QUOTA_EXCEEDED, !.registryUrl = Null,
                                      !.isLoading = FALSE]
            /\ credentials' = Null
            /\ memoryCredentials' = Null
            /\ sessionStorage' = Null
            /\ lastReturn' = Return("connect", registryUrl,
                                    [success |-> FALSE, error |-> QUOTA_EXCEEDED], 0)
            /\ UNCHANGED <<calls, opQueue>>
       ELSE /\ state' = [state EXCEPT !.isLoading = TRUE, !.error = Null]
            /\ credentials' = registryUrl
            /\ memoryCredentials' = registryUrl
            /\ sessionStorage' = registryUrl
            /\ lastReturn' = NoReturn
            /\ calls' = [calls EXCEPT ![FreeSlot] =
                            [fn |-> "connect", arg |-> registryUrl, awaits |-> "ping",
                             sent |-> TRUE, url |-> registryUrl,
                             enqueuedWith |-> registryUrl, network |-> 1]]
            /\ UNCHANGED opQueue
    /\ UNCHANGED localStorage
    /\ OrchFrame

\* credentialStore.load(): the copy in memory, else the one in sessionStorage
Load == IF memoryCredentials # Null THEN memoryCredentials ELSE sessionStorage

\* reconnect, lines 66-77
Reconnect ==
    /\ Invoke
    /\ Free # {}
    /\ credentials' = Load
    /\ memoryCredentials' = Load
    /\ UNCHANGED <<sessionStorage, localStorage>>
    /\ IF Load = Null
       THEN /\ state' = InitializationComplete(state)
            /\ lastReturn' = Return("reconnect", Null, FALSE, 0)
            /\ UNCHANGED <<calls, opQueue>>
       ELSE /\ state' = [state EXCEPT !.isLoading = TRUE, !.error = Null]
            /\ lastReturn' = NoReturn
            /\ calls' = [calls EXCEPT ![FreeSlot] =
                            [fn |-> "reconnect", arg |-> Null, awaits |-> "ping",
                             sent |-> TRUE, url |-> Load, enqueuedWith |-> Load,
                             network |-> 1]]
            /\ UNCHANGED opQueue
    /\ OrchFrame

\* disconnect, lines 98-109
Disconnect ==
    /\ Invoke
    /\ credentials' = Null
    /\ memoryCredentials' = Null
    /\ sessionStorage' = Null
    /\ state' = Disconnected(state)
    /\ lastReturn' = Return("disconnect", Null, Null, 0)
    /\ UNCHANGED <<calls, opQueue, localStorage>>
    /\ OrchFrame

\* setFilter and selectRepo, of the repository browser (shown when connected)
SetFilter(filter) ==
    /\ state.isConnected
    /\ state.filter # filter
    /\ state' = [state EXCEPT !.filter = filter]
    /\ lastReturn' = NoReturn
    /\ UNCHANGED <<calls, opQueue, localStorage, credVars, invoked>>
    /\ OrchFrame

SelectRepo(repo) ==
    /\ state.isConnected
    /\ state.selectedRepo # repo
    /\ state' = [state EXCEPT !.selectedRepo = repo]
    /\ lastReturn' = NoReturn
    /\ UNCHANGED <<calls, opQueue, localStorage, credVars, invoked>>
    /\ OrchFrame

\* clearCache, lines 209-211
ClearCache ==
    /\ Invoke
    /\ localStorage' = ClearAllOutcome(localStorage).store
    /\ lastReturn' = Return("clearCache", Null, Null, 0)
    /\ UNCHANGED <<state, calls, opQueue, credVars>>
    /\ OrchFrame

\* clearImageCache, lines 217-222
ClearImageCache(repository, tag) ==
    /\ Invoke
    /\ localStorage' = ClearOutcome(localStorage, ImageInfoKey(repository, tag)).store
    /\ state' = [state EXCEPT
                   !.imageInfos = RemoveItem(state.imageInfos, ImageKey(repository, tag)),
                   !.manifests = RemoveItem(state.manifests, ImageKey(repository, tag))]
    /\ lastReturn' = Return("clearImageCache", ImageKey(repository, tag), Null, 0)
    /\ UNCHANGED <<calls, opQueue, credVars>>
    /\ OrchFrame

\* faulty variant: the call goes to the registry that was in the credentials
\* when it was enqueued
OpStartsCaptured(c) ==
    /\ UNCHANGED invoked
    /\ opQueue # <<>>
    /\ c = Head(opQueue)
    /\ \A d \in Slots : ~(calls[d].sent /\ calls[d].awaits # "ping")
    /\ opQueue' = Tail(opQueue)
    /\ LET captured == calls[c].enqueuedWith
       IN  IF captured # Null
           THEN /\ calls' = [calls EXCEPT ![c].sent = TRUE, ![c].url = captured]
                /\ lastReturn' = NoReturn
                /\ UNCHANGED <<state, localStorage>>
           ELSE LET call == calls[c]
                    r == After(call, state, localStorage, Rejected(NOT_CONFIGURED))
                IN  /\ calls' = [calls EXCEPT ![c] = NoCall]
                    /\ state' = EndOf(call.fn, r.state).state
                    /\ localStorage' = r.store
                    /\ lastReturn' = Return(call.fn, call.arg,
                                            Returned(call.fn, r.state, r.ret), call.network)
    /\ UNCHANGED credVars
    /\ OrchFrame

\* ---- the actions of the registry client
\* processQueue takes the next entry once the call before it has settled:
\* request() sends it, or throws when no registry URL is configured
OpStarts(c) ==
    /\ UNCHANGED invoked
    /\ opQueue # <<>>
    /\ c = Head(opQueue)
    /\ \A d \in Slots : ~(calls[d].sent /\ calls[d].awaits # "ping")
    /\ opQueue' = Tail(opQueue)
    /\ IF Configured
       THEN /\ calls' = [calls EXCEPT ![c].sent = TRUE, ![c].url = GetCredentials]
            /\ lastReturn' = NoReturn
            /\ UNCHANGED <<state, localStorage>>
       ELSE LET call == calls[c]
                r == After(call, state, localStorage, Rejected(NOT_CONFIGURED))
            IN  /\ calls' = [calls EXCEPT ![c] = NoCall]
                /\ state' = EndOf(call.fn, r.state).state
                /\ localStorage' = r.store
                /\ lastReturn' = Return(call.fn, call.arg,
                                        Returned(call.fn, r.state, r.ret), call.network)
    /\ UNCHANGED credVars
    /\ OrchFrame

\* the reachability check of connect settles (lines 44-54)
ConnectPingSettles(c, ok) ==
    /\ UNCHANGED invoked
    /\ calls[c].fn = "connect"
    /\ calls[c].awaits = "ping"
    /\ IF ok
       THEN /\ Proceed(c, "connect", calls[c].arg, "catalog", calls[c].network,
                       BeginLoadRepositories(
                           [state EXCEPT !.isConnected = TRUE,
                                         !.registryUrl = calls[c].arg],
                           localStorage))
            /\ UNCHANGED credVars
       ELSE /\ state' = [state EXCEPT !.error = NETWORK_ERROR, !.registryUrl = Null,
                                      !.isLoading = FALSE]
            /\ credentials' = Null
            /\ memoryCredentials' = Null
            /\ sessionStorage' = Null
            /\ calls' = [calls EXCEPT ![c] = NoCall]
            /\ lastReturn' = Return("connect", calls[c].arg,
                                    [success |-> FALSE, error |-> NETWORK_ERROR],
                                    calls[c].network)
            /\ UNCHANGED <<opQueue, localStorage>>
    /\ OrchFrame

\* the reachability check of reconnect settles (lines 78-95): a failure
\* changes neither the credentials nor isConnected
ReconnectPingSettles(c, ok) ==
    /\ UNCHANGED invoked
    /\ calls[c].fn = "reconnect"
    /\ calls[c].awaits = "ping"
    /\ IF ok
       THEN Proceed(c, "reconnect", Null, "catalog", calls[c].network,
                    BeginLoadRepositories(
                        [state EXCEPT !.isConnected = TRUE,
                                      !.registryUrl = GetCredentials],
                        localStorage))
       ELSE /\ state' = ReconnectEnds(state)
            /\ calls' = [calls EXCEPT ![c] = NoCall]
            /\ lastReturn' = Return("reconnect", Null, FALSE, calls[c].network)
            /\ UNCHANGED <<opQueue, localStorage>>
    /\ UNCHANGED credVars
    /\ OrchFrame

\* a throttled call settles and the function awaiting it runs to its end
OpSettles(c, ok) ==
    /\ UNCHANGED invoked
    /\ calls[c].sent
    /\ calls[c].awaits # "ping"
    /\ LET call == calls[c]
           r == After(call, state, localStorage, Outcome(call.url, ok))
       IN  /\ calls' = [calls EXCEPT ![c] = NoCall]
           /\ state' = EndOf(call.fn, r.state).state
           /\ localStorage' = r.store
           /\ lastReturn' = Return(call.fn, call.arg, Returned(call.fn, r.state, r.ret),
                                   call.network)
    /\ UNCHANGED <<opQueue, credVars>>
    /\ OrchFrame

\* the page is loaded again: the module state starts afresh, sessionStorage
\* and localStorage are those of the tab
Reload ==
    /\ Invoke
    /\ state' = InitialState
    /\ credentials' = Null
    /\ memoryCredentials' = Null
    /\ calls' = [c \in Slots |-> NoCall]
    /\ opQueue' = <<>>
    /\ lastReturn' = NoReturn
    /\ UNCHANGED <<sessionStorage, localStorage>>
    /\ OrchFrame

InitOrch ==
    /\ sessionStorage = Null
    /\ state = InitialState
    /\ calls = [c \in Slots |-> NoCall]
    /\ opQueue = <<>>
    /\ lastReturn = NoReturn
    /\ invoked = 0

\* the read-through loads next to the cache and the clock, with a registry
\* that can be reached
NextReadThrough ==
    \/ \E url \in Registries : Connect(url, FALSE)
    \/ Disconnect
    \/ LoadRepositories
    \/ \E r \in OrchRepositories : LoadTags(r)
    \/ \E r \in OrchRepositories, t \in TagNames : LoadImageInfo(r, t)
    \/ ClearCache
    \/ \E r \in OrchRepositories, t \in TagNames : ClearImageCache(r, t)
    \/ \E c \in Slots : OpStarts(c)
    \/ \E c \in Slots : ConnectPingSettles(c, TRUE)
    \/ \E c \in Slots, ok \in BOOLEAN : OpSettles(c, ok)
    \/ \E d \in OrchClockSteps : AdvanceClock(d)

\* two registries used one after the other from the same browser
NextRegistries ==
    \/ \E url \in OrchRegistries : Connect(url, FALSE)
    \/ Disconnect
    \/ LoadRepositories
    \/ \E c \in Slots : OpStarts(c)
    \/ \E c \in Slots : ConnectPingSettles(c, TRUE)
    \/ \E c \in Slots, ok \in BOOLEAN : OpSettles(c, ok)
    \/ \E d \in OrchClockSteps : AdvanceClock(d)

\* the session: connect, reconnect, disconnect and the loads, within one
\* instant of the clock
NextSession ==
    \/ \E url \in Registries, saveThrows \in BOOLEAN : Connect(url, saveThrows)
    \/ Reconnect
    \/ Disconnect
    \/ LoadRepositories
    \/ \E r \in OrchRepositories : LoadTags(r)
    \/ \E r \in OrchRepositories, t \in TagNames : LoadImageInfo(r, t)
    \/ \E f \in {EmptyString, "a"} : SetFilter(f)
    \/ \E r \in OrchRepositories \cup {Null} : SelectRepo(r)
    \/ \E c \in Slots : OpStarts(c)
    \/ \E c \in Slots, ok \in BOOLEAN : ConnectPingSettles(c, ok)
    \/ \E c \in Slots, ok \in BOOLEAN : ReconnectPingSettles(c, ok)
    \/ \E c \in Slots, ok \in BOOLEAN : OpSettles(c, ok)
    \/ Reload

\* ------------------------------------------------------------- registry client
\* One call of a function of registryApi.js, with the registry's answers as
\* inputs.  A string is the sequence of its UTF-16 code units; a repository
\* name is its rank in the registry's catalog (0: the empty string).
NoRun == [fn |-> "none"]

RunFrame == UNCHANGED <<throttleVars, cacheVars, state, calls, opQueue, lastReturn, invoked>>

\* ---- getAllRepositories
MaxNames == 250      \* names in the registry's catalog

\* getAllRepositories, line 198
pageSize == 100

\* the registry's answer to GET /_catalog?n=<n>&last=<last>: the next n names
\* after the cursor, fewer when the catalog ends
Catalog(names, n, last) == [i \in 1..Min(n, names - last) |-> last + i]

\* getAllRepositories, lines 196-198: a call on a catalog of `names` names;
\* `before` keeps the call that ended before this one
CatalogRun(names) ==
    [fn |-> "getAllRepositories", names |-> names, repositories |-> <<>>, last |-> 0,
     pages |-> <<>>, cursors |-> <<>>, pc |-> "page", before |-> NoRun]

CatalogRuns == {CatalogRun(names) : names \in 0..MaxNames}

\* faulty variant: any page that is not empty asks for another one
NextCursorOfAnyPage(page) ==
    IF Len(page) > 0 THEN page[Len(page)] ELSE 0

\* getAllRepositories, lines 205-212: the cursor after a page
NextCursor(page) ==
    IF Len(page) > 0
    THEN IF Len(page) = pageSize THEN page[Len(page)] ELSE 0
    ELSE 0

\* getAllRepositories, lines 200-215: one turn of the loop, from the call of
\* enqueueRequest to the test of `while (last)`
CatalogPageArrives ==
    /\ run.fn = "getAllRepositories"
    /\ run.pc = "page"
    /\ LET page == Catalog(run.names, pageSize, run.last)
       IN  run' = [run EXCEPT
                     !.repositories = IF Len(page) > 0 THEN @ \o page ELSE @,
                     !.last = NextCursor(page),
                     !.pages = Append(@, Len(page)),
                     !.cursors = Append(@, run.last),
                     !.pc = IF NextCursor(page) # 0 THEN "page" ELSE "returned"]
    /\ RunFrame

\* faulty variant: a page that fails ends the loop with what was gathered
CatalogPageFailsReturnsPartial ==
    /\ run.fn = "getAllRepositories"
    /\ run.pc = "page"
    /\ run' = [run EXCEPT !.cursors = Append(@, run.last), !.pc = "returned"]
    /\ RunFrame

\* getAllRepositories, lines 201-203: the promise of enqueueRequest rejects;
\* nothing catches it, so the loop is left and getAllRepositories rejects
CatalogPageFails ==
    /\ run.fn = "getAllRepositories"
    /\ run.pc = "page"
    /\ run' = [run EXCEPT !.cursors = Append(@, run.last), !.pc = "rejected"]
    /\ RunFrame

NextCatalog ==
    \/ CatalogPageArrives
    \/ CatalogPageFails

\* ---- getImageInfo
MaxManifests == 2    \* entries of a manifest list
MaxLayers == 3       \* layers of an image manifest

\* An object is a record that has the fields present in it.  A field that is
\* absent reads as undefined; null stands where an object is expected.
Undefined == "undefined"
JsNull == [null |-> TRUE]
NoFields == [f \in {} |-> 0]
With(a, b) == [f \in DOMAIN a \cup DOMAIN b |-> IF f \in DOMAIN a THEN a[f] ELSE b[f]]
Get(obj, field) == IF field \in DOMAIN obj THEN obj[field] ELSE Undefined
\* `value || null`
OrNull(value) == IF value = Undefined THEN Null ELSE value
\* `obj.size || 0`
SizeOr0(obj) == IF "size" \in DOMAIN obj THEN obj.size ELSE 0
Truthy(value) == value = "true"

SeqsUpTo(S, n) == UNION {[1..k -> S] : k \in 0..n}

DOCKER_LIST == "application/vnd.docker.distribution.manifest.list.v2+json"
OCI_INDEX == "application/vnd.oci.image.index.v1+json"
DOCKER_V2 == "application/vnd.docker.distribution.manifest.v2+json"

\* isManifestList, lines 250-253
listMediaTypes == {DOCKER_LIST, OCI_INDEX}

\* what a registry may hold under a tag
ListEntries ==
    {[digest |-> "sha256:amd64", size |-> 100,
      platform |-> [os |-> "linux", architecture |-> "amd64"]],
     [digest |-> "sha256:arm64", size |-> 150,
      platform |-> [os |-> "linux", architecture |-> "arm64", variant |-> "v8"]],
     [digest |-> "sha256:attestation", size |-> 7]}
LayerEntries == {[size |-> 10], [size |-> 20], [size |-> 30]}
ConfigEntries ==
    {[digest |-> "sha256:config", size |-> 5], [digest |-> "sha256:config"], [size |-> 5]}
Manifests ==
    {With(With(mediaType, manifests), With(layers, config)) :
        mediaType \in {[mediaType |-> m] : m \in {DOCKER_LIST, OCI_INDEX, DOCKER_V2}}
                         \cup {NoFields},
        manifests \in {[manifests |-> ms] : ms \in SeqsUpTo(ListEntries, MaxManifests)}
                         \cup {NoFields},
        layers \in {[layers |-> ls] : ls \in SeqsUpTo(LayerEntries, MaxLayers)}
                         \cup {NoFields},
        config \in {[config |-> c] : c \in ConfigEntries} \cup {NoFields}}
\* the manifest of the first platform, and the config blob
PlatformManifests == {[config |-> [digest |-> "sha256:config", size |-> 5]], NoFields}
Blobs ==
    {[created |-> "2024-01-01", architecture |-> "amd64", os |-> "linux",
      author |-> "me", docker_version |-> "24.0"],
     [architecture |-> "amd64", os |-> "linux"]}

\* faulty variant: the media type is not looked at
isManifestListByShape(manifest) ==
    IF "manifests" \notin DOMAIN manifest THEN Undefined
    ELSE IF "layers" \notin DOMAIN manifest THEN "true" ELSE "false"

\* isManifestList, lines 249-256: the value of
\* includes(mediaType) || (manifest.manifests && !manifest.layers)
isManifestList(manifest) ==
    IF Get(manifest, "mediaType") \in listMediaTypes THEN "true"
    ELSE IF "manifests" \notin DOMAIN manifest THEN Undefined
    ELSE IF "layers" \notin DOMAIN manifest THEN "true" ELSE "false"

\* reduce((sum, x) => sum + (x.size || 0), 0)
RECURSIVE SumOfSizes(_)
SumOfSizes(entries) ==
    IF entries = <<>> THEN 0
    ELSE SizeOr0(Head(entries)) + SumOfSizes(Tail(entries))

\* getImageInfo, lines 265-273
PlatformsOf(manifest) ==
    IF "manifests" \notin DOMAIN manifest THEN <<>>
    ELSE LET withPlatform == SelectSeq(manifest.manifests,
                                       LAMBDA m : "platform" \in DOMAIN m)
         IN  [i \in 1..Len(withPlatform) |->
                [os |-> withPlatform[i].platform.os,
                 architecture |-> withPlatform[i].platform.architecture,
                 variant |-> OrNull(Get(withPlatform[i].platform, "variant")),
                 digest |-> withPlatform[i].digest,
                 size |-> withPlatform[i].size]]

\* faulty variant: only the entries with a platform are counted
ListTotalSizeOfPlatforms(manifest) == SumOfSizes(PlatformsOf(manifest))

\* getImageInfo, line 276
ListTotalSize(manifest) ==
    IF "manifests" \in DOMAIN manifest THEN SumOfSizes(manifest.manifests) ELSE 0

\* getImageInfo, lines 302-314
ListInfo(manifest, config, firstManifest) ==
    LET platforms == PlatformsOf(manifest) IN
    [manifest |-> manifest, config |-> config,
     totalSize |-> ListTotalSize(manifest),
     platforms |-> platforms,
     isMultiPlatform |-> TRUE,
     created |-> OrNull(Get(config, "created")),
     architecture |-> IF Len(platforms) > 0 THEN platforms[1].architecture
                      ELSE OrNull(Get(config, "architecture")),
     os |-> IF Len(platforms) > 0 THEN platforms[1].os ELSE OrNull(Get(config, "os")),
     author |-> OrNull(Get(config, "author")),
     dockerVersion |-> OrNull(Get(config, "docker_version")),
     firstManifest |-> firstManifest]

\* faulty variant: the declared size of the config object is left out
SingleTotalSizeOfLayers(manifest) ==
    IF "layers" \in DOMAIN manifest THEN SumOfSizes(manifest.layers) ELSE 0

\* getImageInfo, lines 318-324
SingleTotalSize(manifest) ==
    (IF "layers" \in DOMAIN manifest THEN SumOfSizes(manifest.layers) ELSE 0)
    + (IF "config" \in DOMAIN manifest THEN SizeOr0(manifest.config) ELSE 0)

\* getImageInfo, lines 337-359 (the config blobs used have no platform object)
SingleInfo(manifest, config) ==
    [manifest |-> manifest, config |-> config,
     totalSize |-> SingleTotalSize(manifest),
     platforms |-> IF config = JsNull THEN <<>>
                   ELSE <<[os |-> Get(config, "os"),
                           architecture |-> Get(config, "architecture"),
                           variant |-> OrNull(Get(config, "variant"))]>>,
     isMultiPlatform |-> FALSE,
     created |-> OrNull(Get(config, "created")),
     architecture |-> OrNull(Get(config, "architecture")),
     os |-> OrNull(Get(config, "os")),
     author |-> OrNull(Get(config, "author")),
     dockerVersion |-> OrNull(Get(config, "docker_version"))]

\* faulty variant: the first entry of the list, with a platform or not
firstListedDigest(manifest) == manifest.manifests[1].digest

\* getImageInfo, line 284: platforms[0].digest
firstDigest(manifest) == PlatformsOf(manifest)[1].digest

\* manifest.config?.digest
HasConfigDigest(manifest) ==
    "config" \in DOMAIN manifest /\ "digest" \in DOMAIN manifest.config

\* faulty variant: the failure of a best-effort fetch is not caught
SubFetchEscapes == "rejected"

\* getImageInfo, lines 297-299 and 331-333: the catch blocks
SubFetchCaught == "returned"

\* getImageInfo, line 259: one call on each manifest
ImageInfoRuns ==
    {[fn |-> "getImageInfo", served |-> m, pc |-> "manifest", fetches |-> <<>>,
      asked |-> <<"manifests/tag">>,
      list |-> Undefined, platformManifest |-> JsNull, result |-> JsNull] :
        m \in Manifests}

\* getImageInfo, lines 260-300 and 317-329: getManifest settles
ManifestArrives(ok) ==
    /\ run.fn = "getImageInfo"
    /\ run.pc = "manifest"
    /\ LET manifest == run.served
           list == isManifestList(manifest)
       IN  run' = IF ~ok
                  THEN [run EXCEPT !.pc = "rejected", !.fetches = Append(@, ok)]
                  ELSE IF Truthy(list)
                  THEN IF Len(PlatformsOf(manifest)) > 0
                       THEN [run EXCEPT !.pc = "subManifest", !.list = list,
                                        !.fetches = Append(@, ok),
                                        !.asked = Append(@, "manifests/" \o
                                                            firstDigest(manifest))]
                       ELSE [run EXCEPT !.pc = "returned", !.list = list,
                                        !.fetches = Append(@, ok),
                                        !.result = ListInfo(manifest, JsNull, JsNull)]
                  ELSE IF HasConfigDigest(manifest)
                       THEN [run EXCEPT !.pc = "blob", !.list = list,
                                        !.fetches = Append(@, ok),
                                        !.asked = Append(@, "blobs/" \o
                                                            manifest.config.digest)]
                       ELSE [run EXCEPT !.pc = "returned", !.list = list,
                                        !.fetches = Append(@, ok),
                                        !.result = SingleInfo(manifest, JsNull)]
    /\ RunFrame

\* getImageInfo, lines 285-299: the manifest of the first platform settles
SubManifestArrives(ok, platformManifest) ==
    /\ run.fn = "getImageInfo"
    /\ run.pc = "subManifest"
    /\ run' = IF ~ok
              THEN [run EXCEPT !.pc = SubFetchCaught, !.fetches = Append(@, ok),
                               !.result = ListInfo(run.served, JsNull, JsNull)]
              ELSE IF HasConfigDigest(platformManifest)
              THEN [run EXCEPT !.pc = "blob", !.fetches = Append(@, ok),
                               !.asked = Append(@, "blobs/" \o
                                                   platformManifest.config.digest),
                               !.platformManifest = platformManifest]
              ELSE [run EXCEPT !.pc = "returned", !.fetches = Append(@, ok),
                               !.platformManifest = platformManifest,
                               !.result = ListInfo(run.served, JsNull, platformManifest)]
    /\ RunFrame

\* getImageInfo, lines 294-314 and 330-359: getBlob settles
BlobArrives(ok, blob) ==
    /\ run.fn = "getImageInfo"
    /\ run.pc = "blob"
    /\ run' = IF Truthy(run.list)
              THEN IF ok
                   THEN [run EXCEPT !.pc = "returned", !.fetches = Append(@, ok),
                                    !.result = ListInfo(run.served, blob,
                                                        run.platformManifest)]
                   ELSE [run EXCEPT !.pc = SubFetchCaught, !.fetches = Append(@, ok),
                                    !.result = ListInfo(run.served, JsNull, JsNull)]
              ELSE IF ok
                   THEN [run EXCEPT !.pc = "returned", !.fetches = Append(@, ok),
                                    !.result = SingleInfo(run.served, blob)]
                   ELSE [run EXCEPT !.pc = SubFetchCaught, !.fetches = Append(@, ok),
                                    !.result = SingleInfo(run.served, JsNull)]
    /\ RunFrame

NextImageInfo ==
    \/ \E ok \in BOOLEAN : ManifestArrives(ok)
    \/ \E ok \in BOOLEAN, pm \in PlatformManifests : SubManifestArrives(ok, pm)
    \/ \E ok \in BOOLEAN, blob \in Blobs : BlobArrives(ok, blob)

\* ---- loadImageInfo over getImageInfo: the call of the registry client that
\* ---- a loadImageInfo awaits is followed fetch by fetch
SampleManifests ==
    {[mediaType |-> DOCKER_LIST,
      manifests |-> <<[digest |-> "sha256:amd64", size |-> 100,
                       platform |-> [os |-> "linux", architecture |-> "amd64"]]>>],
     [mediaType |-> DOCKER_V2, layers |-> <<[size |-> 10]>>,
      config |-> [digest |-> "sha256:config", size |-> 5]]}

SampleRuns == {r \in ImageInfoRuns : r.served \in SampleManifests}

\* the image info as the orchestration holds it: a text that tells whether
\* the config is there, and the creation date
ImageInfoText(imageInfo) ==
    "image info, config " \o (IF imageInfo.config = JsNull THEN "null" ELSE "present")
        \o ", created " \o imageInfo.created

\* the getImageInfo call of a loadImageInfo is under way
ImageInfoInFlight ==
    \E c \in Slots : calls[c].awaits = "imageInfo" /\ calls[c].sent

ManifestFetched(ok) == ImageInfoInFlight /\ ManifestArrives(ok)
SubManifestFetched(ok, platformManifest) ==
    ImageInfoInFlight /\ SubManifestArrives(ok, platformManifest)
BlobFetched(ok, blob) == ImageInfoInFlight /\ BlobArrives(ok, blob)

CatalogSettles(c, ok) == calls[c].awaits = "catalog" /\ OpSettles(c, ok)

\* getImageInfo has settled and loadImageInfo runs to its end (lines 186-194)
ImageInfoSettles(c) ==
    /\ calls[c].awaits = "imageInfo"
    /\ calls[c].sent
    /\ run.fn = "getImageInfo"
    /\ run.pc \in {"returned", "rejected"}
    /\ LET call == calls[c]
           out == IF run.pc = "returned" THEN Resolved(ImageInfoText(run.result))
                  ELSE Rejected(NETWORK_ERROR)
           r == AfterGetImageInfo(state, localStorage, call.arg, out)
       IN  /\ calls' = [calls EXCEPT ![c] = NoCall]
           /\ state' = r.state
           /\ localStorage' = r.store
           /\ lastReturn' = Return(call.fn, call.arg, r.ret, call.network)
    /\ run' = NoRun
    /\ CacheHistoryReset
    /\ UNCHANGED <<now, storageMode, requestQueue, isProcessing, loops, tasks, promise,
                   direct, sinceEnd, startOrder, delays, lateEnqueue, opQueue, credVars,
                   invoked>>

NextDegraded ==
    \/ \E url \in Registries : Connect(url, FALSE)
    \/ Disconnect
    \/ \E r \in OrchRepositories, t \in TagNames : LoadImageInfo(r, t)
    \/ \E c \in Slots : OpStarts(c)
    \/ \E c \in Slots : ConnectPingSettles(c, TRUE)
    \/ \E c \in Slots, ok \in BOOLEAN : CatalogSettles(c, ok)
    \/ \E ok \in BOOLEAN : ManifestFetched(ok)
    \/ \E ok \in BOOLEAN, pm \in PlatformManifests : SubManifestFetched(ok, pm)
    \/ \E ok \in BOOLEAN, blob \in Blobs : BlobFetched(ok, blob)
    \/ \E c \in Slots : ImageInfoSettles(c)
    \/ \E d \in OrchClockSteps : AdvanceClock(d)

\* ---- loadRepositories over getAllRepositories: the call of the registry
\* ---- client that a loadRepositories awaits is followed page by page
SampleCatalogs == {0, 37, 150}

\* the list as the orchestration holds it: a text that tells how many names
\* of the catalog it has, from the first on
RepositoriesText(repositories) ==
    IF Len(repositories) = 0 THEN EmptyList
    ELSE "names 1 to " \o ToString(Len(repositories))

\* the getAllRepositories call of a loadRepositories is under way
CatalogInFlight ==
    \E c \in Slots : calls[c].awaits = "catalog" /\ calls[c].sent

PageFetched == CatalogInFlight /\ CatalogPageArrives
PageFails == CatalogInFlight /\ CatalogPageFails

\* getAllRepositories has settled and loadRepositories runs to its end (lines
\* 124-130), and with it the connect that awaited it; the next call of
\* getAllRepositories starts from its first page
RepositoriesSettle(c) ==
    /\ calls[c].awaits = "catalog"
    /\ calls[c].sent
    /\ run.fn = "getAllRepositories"
    /\ run.pc \in {"returned", "rejected"}
    /\ LET call == calls[c]
           out == IF run.pc = "returned" THEN Resolved(RepositoriesText(run.repositories))
                  ELSE Rejected(NETWORK_ERROR)
           r == AfterGetAllRepositories(state, localStorage, out)
       IN  /\ calls' = [calls EXCEPT ![c] = NoCall]
           /\ state' = EndOf(call.fn, r.state).state
           /\ localStorage' = r.store
           /\ lastReturn' = Return(call.fn, call.arg, Returned(call.fn, r.state, r.ret),
                                   call.network)
    /\ run' = [CatalogRun(run.names) EXCEPT !.before = [run EXCEPT !.before = NoRun]]
    /\ CacheHistoryReset
    /\ UNCHANGED <<now, storageMode, requestQueue, isProcessing, loops, tasks, promise,
                   direct, sinceEnd, startOrder, delays, lateEnqueue, opQueue, credVars,
                   invoked>>

NextRepositories ==
    \/ \E url \in Registries : Connect(url, FALSE)
    \/ Disconnect
    \/ LoadRepositories
    \/ \E c \in Slots : OpStarts(c)
    \/ \E c \in Slots : ConnectPingSettles(c, TRUE)
    \/ PageFetched
    \/ PageFails
    \/ \E c \in Slots : RepositoriesSettle(c)

\* ---- getAuthHeader
MaxChars == 2        \* code units of a username or a password

\* "a", ":", "e" with acute accent (Latin-1) and the euro sign (not Latin-1)
CodeUnits == {97, 58, 233, 8364}
Strings == SeqsUpTo(CodeUnits, MaxChars)

\* what getCredentials() may return: null, or an object whose username and
\* password are strings or missing
CredentialObjects ==
    {JsNull} \cup
    {With([registryUrl |-> "https://reg.a"], With(username, password)) :
        username \in {[username |-> u] : u \in Strings} \cup {NoFields},
        password \in {[password |-> p] : p \in Strings} \cup {NoFields}}

\* the base64 alphabet: A-Z, a-z, 0-9, +, /
Base64Char(sextet) ==
    IF sextet < 26 THEN 65 + sextet
    ELSE IF sextet < 52 THEN 97 + (sextet - 26)
    ELSE IF sextet < 62 THEN 48 + (sextet - 52)
    ELSE IF sextet = 62 THEN 43 ELSE 47

\* window.btoa on a string of code units below 256
RECURSIVE Btoa(_)
Btoa(bytes) ==
    IF Len(bytes) = 0 THEN <<>>
    ELSE IF Len(bytes) = 1
    THEN <<Base64Char(bytes[1] \div 4), Base64Char((bytes[1] % 4) * 16), 61, 61>>
    ELSE IF Len(bytes) = 2
    THEN <<Base64Char(bytes[1] \div 4),
           Base64Char((bytes[1] % 4) * 16 + bytes[2] \div 16),
           Base64Char((bytes[2] % 16) * 4), 61>>
    ELSE <<Base64Char(bytes[1] \div 4),
           Base64Char((bytes[1] % 4) * 16 + bytes[2] \div 16),
           Base64Char((bytes[2] % 16) * 4 + bytes[3] \div 64),
           Base64Char(bytes[3] % 64)>> \o Btoa(SubSeq(bytes, 4, Len(bytes)))

\* window.btoa throws InvalidCharacterError on a code unit above 255
BtoaThrows(text) == \E i \in 1..Len(text) : text[i] > 255

\* "Basic "
BASIC == <<66, 97, 115, 105, 99, 32>>

\* creds?.username && creds?.password
HasBoth(creds) ==
    /\ "username" \in DOMAIN creds /\ creds.username # <<>>
    /\ "password" \in DOMAIN creds /\ creds.password # <<>>

\* getAuthHeader, lines 55-62
getAuthHeader(creds) ==
    IF HasBoth(creds)
    THEN LET text == creds.username \o <<58>> \o creds.password
         IN  IF BtoaThrows(text) THEN [thrown |-> "InvalidCharacterError"]
             ELSE [header |-> BASIC \o Btoa(text)]
    ELSE JsNull

AuthRuns == {[fn |-> "request", creds |-> c, pc |-> "headers"] : c \in CredentialObjects}

\* request, lines 120-133: the headers are built
HeadersBuilt ==
    /\ run.fn = "request"
    /\ run.pc = "headers"
    /\ LET authHeader == getAuthHeader(run.creds)
       IN  run' = IF "thrown" \in DOMAIN authHeader
                  THEN [fn |-> "request", creds |-> run.creds, pc |-> "thrown",
                        authHeader |-> authHeader, headers |-> {}]
                  ELSE [fn |-> "request", creds |-> run.creds, pc |-> "fetch",
                        authHeader |-> authHeader,
                        headers |-> IF authHeader # JsNull
                                    THEN {"Accept", "Authorization"} ELSE {"Accept"}]
    /\ RunFrame

NextAuth == HeadersBuilt

\* ------------------------------------------------------------- specification
InitThrottle ==
    /\ credentials = Null
    /\ memoryCredentials = Null
    /\ requestQueue = <<>>
    /\ isProcessing = FALSE
    /\ loops = {}
    /\ tasks = <<>>
    /\ promise = <<>>
    /\ direct = [k \in AllKinds |-> 0]
    /\ sinceEnd = REQUEST_DELAY
    /\ startOrder = <<>>
    /\ delays = 0
    /\ lateEnqueue = FALSE

NextThrottle ==
    \/ \E url \in Registries : SaveCredentials(url)
    \/ ClearCredentials
    \/ TestConnection
    \/ GetCatalogPage
    \/ GetTags
    \/ GetManifest
    \/ GetBlob
    \/ DeleteManifest
    \/ \E l \in loops, out \in {"ok", "err", "config"} : TaskCompletes(l, out)
    \/ \E l \in loops : DelayExpires(l)
    \/ \E l \in loops : Hang(l)
    \/ \E k \in AllKinds : DirectCompletes(k)
    \/ Tick

Init == InitThrottle /\ InitCache /\ InitOrch /\ run = NoRun

\* one call of getAllRepositories on each catalog
InitCatalog == InitThrottle /\ InitCache /\ InitOrch /\ run \in CatalogRuns

SpecThrottle == Init /\ [][NextThrottle]_vars

SpecCache == Init /\ [][NextCache]_vars
SpecExpiry == Init /\ [][NextExpiry]_vars

SpecKeys == Init /\ [][NextKeys]_vars

SpecStorage == Init /\ [][NextStorage]_vars

SpecReadThrough == Init /\ [][NextReadThrough]_vars

SpecSession == Init /\ [][NextSession]_vars

SpecRegistries == Init /\ [][NextRegistries]_vars

SpecCatalog == InitCatalog /\ [][NextCatalog]_vars

\* one call of getImageInfo on each manifest
InitImageInfo == InitThrottle /\ InitCache /\ InitOrch /\ run \in ImageInfoRuns

SpecImageInfo == InitImageInfo /\ [][NextImageInfo]_vars

\* one loadImageInfo whose getImageInfo is followed, on a list and on an image
InitDegraded == InitThrottle /\ InitCache /\ InitOrch /\ run \in SampleRuns

SpecDegraded == InitDegraded /\ [][NextDegraded]_vars

\* the loads of the repository list on an empty catalog, on a catalog of one
\* page and on a catalog of two
InitRepositories ==
    InitThrottle /\ InitCache /\ InitOrch /\ run \in {CatalogRun(names) : names \in SampleCatalogs}

SpecRepositories == InitRepositories /\ [][NextRepositories]_vars

\* one request under each set of credentials
InitAuth == InitThrottle /\ InitCache /\ InitOrch /\ run \in AuthRuns

SpecAuth == InitAuth /\ [][NextAuth]_vars

\* The drain loop and the timers are scheduled by the event loop: a settled
\* promise resumes its awaiter, a due timer fires, time passes.  A task that
\* hangs is never resumed.  The direct calls never touch the queue and are
\* left out.
NextThrottleLive ==
    \/ \E url \in Registries : SaveCredentials(url)
    \/ ClearCredentials
    \/ GetCatalogPage
    \/ GetTags
    \/ GetManifest
    \/ GetBlob
    \/ \E l \in loops, out \in {"ok", "err", "config"} : TaskCompletes(l, out)
    \/ \E l \in loops : DelayExpires(l)
    \/ \E l \in loops : Hang(l)
    \/ Tick

SpecThrottleLive ==
    /\ Init
    /\ [][NextThrottleLive]_vars
    /\ WF_vars(\E l \in loops, out \in {"ok", "err", "config"} : TaskCompletes(l, out))
    /\ WF_vars(\E l \in loops : DelayExpires(l))
    /\ WF_vars(Tick)

\* ------------------------------------------------------------- properties
TaskIds == 1..Len(tasks)
Running == {i \in TaskIds : tasks[i].status = "running"}
Done(i) == i \in TaskIds /\ tasks[i].status = "done"
Started(i) == i \in TaskIds /\ tasks[i].status # "queued"
Settled(i) == i \in TaskIds /\ promise[i].state # "pending"
HungUpTo(n) == \E j \in TaskIds : j <= n /\ tasks[j].hung
DoneCount == Cardinality({i \in TaskIds : tasks[i].status = "done"})
HttpTasks == {i \in TaskIds : tasks[i].http}

\* C1: in every reachable state at most one activation of processQueue is
\* suspended in its loop and at most one enqueued task is executing.
C1_SingleDrainLoop ==
    /\ Cardinality(loops) <= 1
    /\ Cardinality(Running) <= 1

\* a task is executing, two more were enqueued meanwhile
C1_Witness ==
    /\ Cardinality(loops) = 1
    /\ Cardinality(Running) = 1
    /\ Len(requestQueue) >= 2

\* C2: tasks start in the order of their enqueueRequest calls, and a task
\* starts only when every task enqueued before it has finished.
C2_Fifo ==
    /\ \A k \in 1..Len(startOrder) : startOrder[k] = k
    /\ \A j \in TaskIds : Started(j) => \A i \in 1..(j - 1) : Done(i)

\* the second task runs after the first, a third was enqueued behind it
C2_Witness ==
    /\ Len(tasks) >= 3
    /\ Done(1)
    /\ tasks[2].status = "running"
    /\ tasks[2].enqAt = "task"
    /\ tasks[3].status = "queued"

\* C3: a completing task is followed by the delay exactly when the queue is
\* non-empty at that moment, a delay is only ever waited with a task queued
\* behind it, and N tasks all enqueued before the first completes make N-1
\* delays.
C3_DelayIffMore ==
    /\ [][/\ (DoneCount' = DoneCount + 1) =>
                ((delays' = delays + 1) <=> (Len(requestQueue) > 0))
          /\ (DoneCount' = DoneCount) => (delays' = delays)]_vars
    /\ [](\A l \in loops : l.pc = "awaitDelay" => Len(requestQueue) > 0)
    /\ []((/\ ~lateEnqueue
           /\ Len(tasks) >= 1
           /\ \A i \in TaskIds : Done(i)) => delays = Len(tasks) - 1)

\* three tasks enqueued before the first completed are all done, after two delays
C3_Witness ==
    /\ ~lateEnqueue
    /\ Len(tasks) >= 3
    /\ \A i \in TaskIds : Done(i)
    /\ loops = {}
    /\ delays = Len(tasks) - 1

\* C4 (as claimed): whenever the drain loop issues a queued HTTP call, at least
\* REQUEST_DELAY ms have passed since the previous queued HTTP call ended.
C4_MinimumGap ==
    [][(\E i \in 1..Len(tasks') : tasks'[i].http /\ ~(i \in HttpTasks))
          => sinceEnd >= REQUEST_DELAY]_vars

\* C5: a failing task rejects its own waiter and nobody else's, every settled
\* waiter holds the outcome of its own task, every finished task has settled
\* its waiter, and the loop goes on with the tasks still queued.
C5_FailureIsLocal ==
    /\ [](\A i \in TaskIds :
            /\ promise[i].state = "rejected" =>
                   (promise[i].of = i /\ tasks[i].outcome \in {"err", "config"})
            /\ promise[i].state = "resolved" =>
                   (promise[i].of = i /\ tasks[i].outcome = "ok")
            /\ Done(i) <=> promise[i].state # "pending")
    /\ [][\A i \in TaskIds :
            (tasks[i].status = "running" /\ tasks'[i].outcome \in {"err", "config"}) =>
                /\ promise'[i].state = "rejected"
                /\ \A j \in TaskIds \ {i} : promise'[j] = promise[j]
                /\ (Len(requestQueue) > 0 => (loops' # {} /\ isProcessing'))]_vars

\* a task failed, and the tasks behind it were run and resolved
C5_Witness ==
    /\ Len(tasks) >= 3
    /\ promise[1].state = "rejected"
    /\ promise[2].state = "resolved"
    /\ promise[3].state = "rejected"

\* C6: every enqueued task is eventually started unless a task before it
\* hangs, and its promise eventually settles unless it or a task before it
\* hangs.
C6_EventuallySettles ==
    \A i \in 1..MaxTasks :
        /\ (Len(tasks) >= i) ~> (Started(i) \/ HungUpTo(i - 1))
        /\ (Len(tasks) >= i) ~> (Settled(i) \/ HungUpTo(i))

\* tasks enqueued on an idle throttler, during a task and during the delay
\* have all settled
C6_Witness ==
    /\ Len(tasks) >= 3
    /\ \A i \in TaskIds : Settled(i)
    /\ \E i \in TaskIds : tasks[i].enqAt = "idle"
    /\ \E i \in TaskIds : tasks[i].enqAt = "task"
    /\ \E i \in TaskIds : tasks[i].enqAt = "delay"

\* C7: while a task hangs, its promise and the promise of every task enqueued
\* after it stay pending and none of those tasks has started.
C7_HungBlocksQueue ==
    \A i \in TaskIds : tasks[i].hung =>
        /\ tasks[i].status = "running"
        /\ promise[i].state = "pending"
        /\ \A j \in TaskIds : j > i =>
              (tasks[j].status = "queued" /\ promise[j].state = "pending")

\* the first task hangs with two tasks queued behind it, long after the delay
C7_Witness ==
    /\ Len(tasks) >= 3
    /\ tasks[1].hung
    /\ Len(requestQueue) = 2
    /\ sinceEnd = REQUEST_DELAY

\* C8 (as claimed): no two registry HTTP calls are in flight at the same time.
C8_OneCallInFlight ==
    Cardinality(HttpTasks) + direct["ping"] + direct["delete"]
        + direct["catalog"] + direct["tags"] + direct["manifest"] + direct["blob"] <= 1

\* C8 (amended): catalog, tags, manifest and blob calls are only ever issued
\* by the drain loop, one at a time and in the order of their enqueueRequest
\* calls.
C8_QueuedCallsSerial ==
    /\ \A k \in QueuedKinds : direct[k] = 0
    /\ \A i \in HttpTasks : tasks[i].kind \in QueuedKinds /\ tasks[i].status = "running"
    /\ Cardinality(HttpTasks) <= 1
    /\ \A j \in HttpTasks : \A i \in 1..(j - 1) : Done(i)

\* a queued call is in flight together with a ping and a delete
C8_Witness ==
    /\ Cardinality(HttpTasks) = 1
    /\ direct["ping"] > 0
    /\ direct["delete"] > 0

\* C9: deleteManifest leaves requestQueue, isProcessing and the drain loop as
\* they are and, with a registry URL configured, its DELETE is in flight as
\* soon as the call returns; and in every state with a URL configured,
\* whatever is queued or executing, deleteManifest can issue its DELETE.
C9_DeleteBypassesQueue ==
    /\ [][DeleteManifest =>
            /\ UNCHANGED <<requestQueue, isProcessing, loops, tasks, promise>>
            /\ (Configured => direct'["delete"] = direct["delete"] + 1)]_vars
    /\ []((Configured /\ direct["delete"] < MaxDirect) =>
             ENABLED (DeleteManifest /\ direct'["delete"] = direct["delete"] + 1))

\* a DELETE is in flight while a queued call executes and another one waits
C9_Witness ==
    /\ direct["delete"] > 0
    /\ isProcessing
    /\ Cardinality(HttpTasks) = 1
    /\ Len(requestQueue) > 0

\* C10: in each namespace a get of a stored entry returns its value exactly
\* when now - timestamp <= CACHE_TTL and leaves storage alone; otherwise it
\* returns null and has removed that entry, and only that entry, when it
\* returns; so no get ever returns an entry older than CACHE_TTL.
C10_TtlEviction ==
    /\ [][lastGet' # NoGet =>
            LET k == lastGet'.key
                hit == lastGet'.result
            IN IF k \in DOMAIN localStorage
               THEN LET e == localStorage[k].json IN
                    IF now - e.timestamp <= CACHE_TTL
                    THEN hit = e.value /\ localStorage' = localStorage
                    ELSE /\ hit = Null
                         /\ k \notin DOMAIN localStorage'
                         /\ \A o \in DOMAIN localStorage \ {k} :
                               o \in DOMAIN localStorage' /\ localStorage'[o] = localStorage[o]
               ELSE hit = Null /\ localStorage' = localStorage]_vars
    /\ [](lastGet.result # Null => lastGet.at - lastGet.written <= CACHE_TTL)
    /\ []((lastGet.written >= 0 /\ lastGet.at - lastGet.written <= CACHE_TTL)
             => lastGet.result # Null)

\* a get found an entry one ms past its TTL, returned null and removed it,
\* leaving the other entry in storage
C10_Witness ==
    /\ lastGet.written >= 0
    /\ lastGet.at - lastGet.written = CACHE_TTL + 1
    /\ lastGet.result = Null
    /\ lastGet.key \notin DOMAIN localStorage
    /\ DOMAIN localStorage # {}

\* C11: in each namespace, a get of the key just saved (nothing but the clock
\* and gets in between) returns the saved value while now - (time of the
\* save) <= CACHE_TTL, and null once the clock is past that.
C11_SaveThenGet ==
    (lastGet.key # Null /\ lastGet.key = justSaved.key) =>
        IF lastGet.at - justSaved.at <= CACHE_TTL
        THEN lastGet.result = justSaved.value
        ELSE lastGet.result = Null

\* a value saved over an older one is read back exactly CACHE_TTL later
C11_Witness ==
    /\ lastGet.key # Null
    /\ lastGet.key = justSaved.key
    /\ justSaved.at > 0
    /\ lastGet.at - justSaved.at = CACHE_TTL
    /\ lastGet.result = justSaved.value

\* C12: on a storage that can be accessed, clearAll removes every key of
\* localStorage that starts with CACHE_PREFIX and leaves every other key (the
\* theme preference) with its value; clearImageInfo, clearTags and
\* clearRepositories remove their own key and leave every other key, of the
\* cache or not, with its value.
OnlyRemoved(gone) ==
    /\ DOMAIN localStorage' = DOMAIN localStorage \ gone
    /\ \A k \in DOMAIN localStorage' : localStorage'[k] = localStorage[k]

C12_ClearScope ==
    [][~AccessThrows =>
        /\ ClearAll =>
              OnlyRemoved({k \in DOMAIN localStorage :
                              /\ Len(k) >= Len("registry_lens_cache:")
                              /\ SubSeq(k, 1, Len("registry_lens_cache:"))
                                    = "registry_lens_cache:"})
        /\ \A r \in Repositories, t \in TagNames :
              ClearImageInfo(r, t) =>
                  OnlyRemoved({"registry_lens_cache:image_info:" \o r \o ":" \o t})
        /\ \A r \in Repositories :
              ClearTags(r) => OnlyRemoved({"registry_lens_cache:tags:" \o r})
        /\ ClearRepositories =>
              OnlyRemoved({"registry_lens_cache:repositories:list"})]_vars

\* clearAll has just removed two entries of the cache and the theme is still there
C12_Witness ==
    /\ lastClear = 2
    /\ DOMAIN localStorage = {THEME}

Unexpired(key) ==
    /\ key \in DOMAIN localStorage
    /\ "json" \in DOMAIN localStorage[key]
    /\ now - localStorage[key].json.timestamp <= 24 * 60 * 60 * 1000

CachedValue(key) == localStorage[key].json.value

NoRegistryCall == calls' = calls /\ opQueue' = opQueue /\ lastReturn'.network = 0

C14_HitServedFromCache ==
    [][/\ (Unexpired("registry_lens_cache:repositories:list") /\ LoadRepositories)
            => /\ NoRegistryCall
               /\ lastReturn'.fn = "loadRepositories"
               /\ state'.repositories = CachedValue("registry_lens_cache:repositories:list")
       /\ \A r \in OrchRepositories :
            (Unexpired("registry_lens_cache:tags:" \o r) /\ LoadTags(r))
                => /\ NoRegistryCall
                   /\ lastReturn'.fn = "loadTags"
                   /\ lastReturn'.value = CachedValue("registry_lens_cache:tags:" \o r)
       /\ \A r \in OrchRepositories, t \in TagNames :
            (Unexpired("registry_lens_cache:image_info:" \o r \o ":" \o t)
                /\ LoadImageInfo(r, t))
                => /\ NoRegistryCall
                   /\ lastReturn'.fn = "loadImageInfo"
                   /\ lastReturn'.value =
                          CachedValue("registry_lens_cache:image_info:" \o r \o ":" \o t)
      ]_vars

\* C15: a load that has fetched its result from the registry has written it
\* to the cache, stamped with the current time, by the time it returns; and a
\* load of a key whose cache entry is not older than CACHE_TTL calls no
\* registry client operation.
FetchedAndCached(key, value) ==
    /\ key \in DOMAIN localStorage
    /\ localStorage[key] = [json |-> [value |-> value, timestamp |-> lastReturn.at]]

C15_FetchIsCached ==
    /\ []((lastReturn.fn = "loadTags" /\ lastReturn.network = 1
              /\ lastReturn.value # "[]")
            => FetchedAndCached("registry_lens_cache:tags:" \o lastReturn.arg,
                                lastReturn.value))
    /\ []((lastReturn.fn = "loadImageInfo" /\ lastReturn.network = 1
              /\ lastReturn.value # Null)
            => FetchedAndCached("registry_lens_cache:image_info:" \o lastReturn.arg,
                                lastReturn.value))
    /\ []((lastReturn.fn = "loadRepositories" /\ lastReturn.network = 1
              /\ state.error = Null)
            => FetchedAndCached("registry_lens_cache:repositories:list",
                                state.repositories))
    /\ [][/\ (Unexpired("registry_lens_cache:repositories:list") /\ LoadRepositories)
               => NoRegistryCall
          /\ \A r \in OrchRepositories :
               (Unexpired("registry_lens_cache:tags:" \o r) /\ LoadTags(r))
                   => NoRegistryCall
          /\ \A r \in OrchRepositories, t \in TagNames :
               (Unexpired("registry_lens_cache:image_info:" \o r \o ":" \o t)
                   /\ LoadImageInfo(r, t))
                   => NoRegistryCall]_vars

\* the tags fetched at one time are asked for again CACHE_TTL later and
\* delivered without a call of the registry
C15_Witness ==
    /\ lastReturn.fn = "loadTags"
    /\ lastReturn.network = 0
    /\ "registry_lens_cache:tags:app" \in DOMAIN localStorage
    /\ lastReturn.at - localStorage["registry_lens_cache:tags:app"].json.timestamp
          = CACHE_TTL
    /\ lastReturn.value = localStorage["registry_lens_cache:tags:app"].json.value

\* C16: when the call of the registry client made on a cache miss fails, the
\* load gives that failure to its caller (loadRepositories through
\* state.error), writes nothing to the cache and calls the registry client
\* no second time.
FailedLoad(c) ==
    /\ calls[c].fn \in {"loadRepositories", "loadTags", "loadImageInfo"}
    /\ OpSettles(c, FALSE)

C16_FailureSurfaced ==
    [][\A c \in Slots :
          FailedLoad(c) =>
             /\ localStorage' = localStorage
             /\ opQueue' = opQueue
             /\ \A d \in Slots \ {c} : calls'[d] = calls[d]
             /\ lastReturn'.network = 1
             /\ IF calls[c].fn = "loadRepositories"
                THEN state'.error = "Registry API error: 500"
                ELSE lastReturn'.value = "Registry API error: 500"]_vars

\* C17: once disconnect has returned, the registry client and the credential
\* store hold no credentials (so isAuthenticated is false and no auth header
\* can be built), isConnected is false, and repositories, tags, manifests,
\* imageInfos, selectedRepo, filter and registryUrl are empty; disconnect
\* leaves localStorage as it was.
C17_DisconnectResets ==
    /\ [](lastReturn.fn = "disconnect" =>
            /\ credentials = Null
            /\ memoryCredentials = Null
            /\ sessionStorage = Null
            /\ ~Configured
            /\ state.isConnected = FALSE
            /\ state.repositories = "[]"
            /\ DOMAIN state.tags = {}
            /\ DOMAIN state.manifests = {}
            /\ DOMAIN state.imageInfos = {}
            /\ state.selectedRepo = Null
            /\ state.filter = ""
            /\ state.registryUrl = Null)
    /\ [][(lastReturn'.fn = "disconnect" /\ Disconnect)
              => localStorage' = localStorage]_vars

\* disconnect has returned and the three cache entries of the session are there
C17_Witness ==
    /\ lastReturn.fn = "disconnect"
    /\ Cardinality(DOMAIN localStorage) = 3

\* C18: when connect returns success = false, the credentials it saved are
\* cleared again, the error it returns is the one recorded, and isConnected
\* is false, whatever the state connect was called in.
C18_FailedConnectRollsBack ==
    (lastReturn.fn = "connect" /\ ~lastReturn.value.success) =>
        /\ credentials = Null
        /\ memoryCredentials = Null
        /\ sessionStorage = Null
        /\ lastReturn.value.error = state.error
        /\ state.isConnected = FALSE

\* C19: when reconnect returns false after a failed reachability check, the
\* stored credentials are cleared and isConnected is false.
C19_FailedReconnectRollsBack ==
    (lastReturn.fn = "reconnect" /\ lastReturn.network >= 1 /\ lastReturn.value = FALSE) =>
        /\ credentials = Null
        /\ memoryCredentials = Null
        /\ sessionStorage = Null
        /\ state.isConnected = FALSE

C21_CacheOutlivesRegistry ==
    [][/\ \A c \in Slots :
            (/\ calls[c].fn = "connect"
             /\ calls[c].awaits = "ping"
             /\ Unexpired("registry_lens_cache:repositories:list")
             /\ calls'[c] # calls[c]
             /\ ~(lastReturn'.fn = "connect" /\ ~lastReturn'.value.success))
            => /\ lastReturn'.fn = "connect"
               /\ lastReturn'.network = 1
               /\ calls'[c] = NoCall
               /\ opQueue' = opQueue
               /\ state'.repositories =
                      CachedValue("registry_lens_cache:repositories:list")
       /\ lastReturn'.fn = "disconnect" => localStorage' = localStorage]_vars

\* connected to reg.b, with the list fetched from reg.a CACHE_TTL ago and no
\* call beyond the reachability check
C21_Witness ==
    /\ lastReturn.fn = "connect"
    /\ lastReturn.arg = "https://reg.b"
    /\ lastReturn.network = 1
    /\ lastReturn.at = CACHE_TTL
    /\ state.isConnected
    /\ state.registryUrl = "https://reg.b"
    /\ state.repositories = "content of https://reg.a at 0"

\* C22: when getAllRepositories has returned for a catalog of N names, it
\* returns the N names in catalog order; it made N div pageSize + 1 calls,
\* each with the last name of the page before as its cursor (none for the
\* first); every page but the last had exactly pageSize names and the last
\* had fewer.
C22_Pagination ==
    (run.fn = "getAllRepositories" /\ run.pc = "returned") =>
        /\ run.repositories = [i \in 1..run.names |-> i]
        /\ Len(run.pages) = (run.names \div 100) + 1
        /\ \A k \in 1..Len(run.pages) :
              /\ run.cursors[k] = (k - 1) * 100
              /\ (k < Len(run.pages)) => run.pages[k] = 100
              /\ (k = Len(run.pages)) => run.pages[k] # 100

\* 237 names arrive in pages of 100, 100 and 37
C22_Witness ==
    /\ run.fn = "getAllRepositories"
    /\ run.pc = "returned"
    /\ Len(run.repositories) = 237
    /\ run.pages = <<100, 100, 37>>

\* C23: for a manifest that is not a manifest list, getImageInfo returns
\* isMultiPlatform = false and totalSize = the sum of the layer sizes plus
\* the size declared in the manifest's config object, if any, whether the
\* config blob was fetched, could not be fetched or was not asked for.
C23_SinglePlatformSize ==
    (run.fn = "getImageInfo" /\ run.pc = "returned" /\ ~Truthy(run.list)) =>
        /\ run.result.isMultiPlatform = FALSE
        /\ run.result.totalSize =
              (IF "layers" \in DOMAIN run.served
               THEN SumOfSizes(run.served.layers) ELSE 0)
              + (IF "config" \in DOMAIN run.served /\ "size" \in DOMAIN run.served.config
                 THEN run.served.config.size ELSE 0)

\* layers of 10, 20 and 30 and a config of size 5 whose blob could not be
\* fetched: 65
C23_Witness ==
    /\ run.fn = "getImageInfo"
    /\ run.pc = "returned"
    /\ "layers" \in DOMAIN run.served
    /\ run.served.layers = <<[size |-> 10], [size |-> 20], [size |-> 30]>>
    /\ run.fetches = <<TRUE, FALSE>>
    /\ run.result.isMultiPlatform = FALSE
    /\ run.result.totalSize = 65

\* C24: for a manifest list, getImageInfo returns isMultiPlatform = true, one
\* platform descriptor for each entry that has a platform field, in the
\* order of the list, and totalSize = the sum of the sizes of all entries,
\* those without a platform field included.
EntriesOf(manifest) ==
    IF "manifests" \in DOMAIN manifest THEN manifest.manifests ELSE <<>>

EntriesWithPlatform(manifest) ==
    SelectSeq(EntriesOf(manifest), LAMBDA m : "platform" \in DOMAIN m)

C24_ManifestList ==
    (run.fn = "getImageInfo" /\ run.pc = "returned" /\ Truthy(run.list)) =>
        /\ run.result.isMultiPlatform = TRUE
        /\ run.result.totalSize = SumOfSizes(EntriesOf(run.served))
        /\ Len(run.result.platforms) = Len(EntriesWithPlatform(run.served))
        /\ \A i \in 1..Len(run.result.platforms) :
              /\ run.result.platforms[i].digest = EntriesWithPlatform(run.served)[i].digest
              /\ run.result.platforms[i].os = EntriesWithPlatform(run.served)[i].platform.os
              /\ run.result.platforms[i].architecture =
                    EntriesWithPlatform(run.served)[i].platform.architecture

\* an entry without a platform and one of size 150 with one: one platform, 157
C24_Witness ==
    /\ run.fn = "getImageInfo"
    /\ run.pc = "returned"
    /\ Truthy(run.list)
    /\ Len(EntriesOf(run.served)) = 2
    /\ "platform" \notin DOMAIN EntriesOf(run.served)[1]
    /\ Len(run.result.platforms) = 1
    /\ run.result.platforms[1].architecture = "arm64"
    /\ run.result.totalSize = 157

\* C25: getImageInfo is rejected exactly when the fetch of the tag's
\* manifest failed; when a later fetch (the first platform's manifest, the
\* config blob) failed, it returns at once with config, created, author and
\* dockerVersion null, and with manifest, isMultiPlatform, totalSize and
\* platforms as the manifest alone gives them.
C25_OnlyManifestFailureFails ==
    (run.fn = "getImageInfo" /\ Len(run.fetches) > 0) =>
        /\ (run.pc = "rejected") <=> ~run.fetches[1]
        /\ (Len(run.fetches) > 1 /\ ~run.fetches[Len(run.fetches)]) =>
              /\ run.pc = "returned"
              /\ run.result.config = JsNull
              /\ run.result.created = Null
              /\ run.result.author = Null
              /\ run.result.dockerVersion = Null
              /\ run.result.manifest = run.served
              /\ run.result.isMultiPlatform = Truthy(run.list)
              /\ run.result.totalSize =
                    IF Truthy(run.list)
                    THEN SumOfSizes(EntriesOf(run.served))
                    ELSE SumOfSizes(IF "layers" \in DOMAIN run.served
                                    THEN run.served.layers ELSE <<>>)
                         + (IF "config" \in DOMAIN run.served
                            THEN SizeOr0(run.served.config) ELSE 0)
              /\ Len(run.result.platforms) =
                    IF Truthy(run.list) THEN Len(EntriesWithPlatform(run.served)) ELSE 0

\* the list and its first platform's manifest were fetched, the config blob
\* was not: the call returns the sizes of the list
C25_Witness ==
    /\ run.fn = "getImageInfo"
    /\ run.pc = "returned"
    /\ run.fetches = <<TRUE, TRUE, FALSE>>
    /\ run.result.config = JsNull
    /\ run.result.created = Null
    /\ run.result.totalSize = 250
    /\ Len(run.result.platforms) = 2

\* C26 (as stated): isManifestList is true for a manifest of one of the two
\* list media types, true for a manifest with a manifests array and no layers
\* array, and false for a manifest with layers present.
C26_Classification ==
    (run.fn = "getImageInfo" /\ run.pc \notin {"manifest", "rejected"}) =>
        /\ Get(run.served, "mediaType") \in {"application/vnd.docker.distribution.manifest.list.v2+json",
                                             "application/vnd.oci.image.index.v1+json"}
              => run.list = "true"
        /\ ("manifests" \in DOMAIN run.served /\ "layers" \notin DOMAIN run.served)
              => run.list = "true"
        /\ "layers" \in DOMAIN run.served => run.list # "true"

\* C26 (amended): isManifestList is true for a manifest of one of the two
\* list media types, whatever else it holds; for any other manifest it is
\* true when there is a manifests array and no layers array, false when
\* there are both, and undefined when there is no manifests array.
C26_ClassificationByMediaTypeFirst ==
    (run.fn = "getImageInfo" /\ run.pc \notin {"manifest", "rejected"}) =>
        IF Get(run.served, "mediaType") \in {"application/vnd.docker.distribution.manifest.list.v2+json",
                                             "application/vnd.oci.image.index.v1+json"}
        THEN run.list = "true"
        ELSE /\ ("manifests" \in DOMAIN run.served /\ "layers" \notin DOMAIN run.served)
                  => run.list = "true"
             /\ ("manifests" \in DOMAIN run.served /\ "layers" \in DOMAIN run.served)
                  => run.list = "false"
             /\ "manifests" \notin DOMAIN run.served => run.list = "undefined"

\* an OCI index that also has layers is taken as a list
C26_Witness ==
    /\ run.fn = "getImageInfo"
    /\ run.pc = "returned"
    /\ Get(run.served, "mediaType") = "application/vnd.oci.image.index.v1+json"
    /\ "layers" \in DOMAIN run.served
    /\ run.list = "true"
    /\ run.result.isMultiPlatform = TRUE

\* C27: the request carries an Authorization header, "Basic " followed by the
\* base64 text of username:password, exactly when the credentials have a
\* non-empty username and a non-empty password; otherwise it carries none;
\* and building the header never throws.
Base64Value(char) ==
    IF char >= 65 /\ char <= 90 THEN char - 65
    ELSE IF char >= 97 /\ char <= 122 THEN char - 97 + 26
    ELSE IF char >= 48 /\ char <= 57 THEN char - 48 + 52
    ELSE IF char = 43 THEN 62 ELSE 63

RECURSIVE Atob(_)
Atob(text) ==
    IF Len(text) = 0 THEN <<>>
    ELSE LET a == Base64Value(text[1])
             b == Base64Value(text[2])
             c == Base64Value(text[3])
             d == Base64Value(text[4])
             rest == Atob(SubSeq(text, 5, Len(text)))
         IN  IF text[3] = 61 THEN <<a * 4 + b \div 16>>
             ELSE IF text[4] = 61 THEN <<a * 4 + b \div 16, (b % 16) * 16 + c \div 4>>
             ELSE <<a * 4 + b \div 16, (b % 16) * 16 + c \div 4, (c % 4) * 64 + d>> \o rest

C27_AuthHeader ==
    (run.fn = "request" /\ run.pc # "headers") =>
        /\ run.pc # "thrown"
        /\ IF /\ "username" \in DOMAIN run.creds /\ Len(run.creds.username) > 0
              /\ "password" \in DOMAIN run.creds /\ Len(run.creds.password) > 0
           THEN /\ "Authorization" \in run.headers
                /\ SubSeq(run.authHeader.header, 1, 6) = <<66, 97, 115, 105, 99, 32>>
                /\ Atob(SubSeq(run.authHeader.header, 7, Len(run.authHeader.header)))
                      = run.creds.username \o <<58>> \o run.creds.password
           ELSE /\ "Authorization" \notin run.headers
                /\ run.authHeader = JsNull

\* C28: a loadTags or loadImageInfo that finds its key neither in memory nor
\* unexpired in the cache starts a call of the registry client of its own,
\* also when a call for the same key is already under way; and the throttler
\* has at most one of these calls in flight at a time.
Missing(key) == ~(key \in DOMAIN localStorage /\ Unexpired(key))

StartsOwnCall(fn, arg) ==
    /\ lastReturn'.fn = "none"
    /\ \E c \in Slots :
          /\ calls[c].fn = "none"
          /\ calls'[c].fn = fn
          /\ calls'[c].arg = arg
          /\ calls'[c].network = 1
          /\ \/ calls'[c].sent /\ opQueue' = opQueue
             \/ ~calls'[c].sent /\ opQueue' = Append(opQueue, c)
          /\ \A d \in Slots \ {c} : calls'[d] = calls[d]

C28_NoDeduplication ==
    /\ [][/\ \A r \in OrchRepositories :
               (/\ Configured
                /\ r \notin DOMAIN state.tags
                /\ Missing("registry_lens_cache:tags:" \o r)
                /\ lastReturn'.fn \in {"none", "loadTags"}
                /\ LoadTags(r))
               => StartsOwnCall("loadTags", r)
          /\ \A r \in OrchRepositories, t \in TagNames :
               (/\ Configured
                /\ (r \o ":" \o t) \notin DOMAIN state.imageInfos
                /\ Missing("registry_lens_cache:image_info:" \o r \o ":" \o t)
                /\ lastReturn'.fn \in {"none", "loadImageInfo"}
                /\ LoadImageInfo(r, t))
               => StartsOwnCall("loadImageInfo", r \o ":" \o t)]_invoked
    /\ [](Cardinality({c \in Slots : calls[c].sent /\ calls[c].awaits # "ping"}) <= 1)

\* two loads of the tags of one repository are suspended, one with its call
\* in flight, the other queued behind it
C28_Witness ==
    /\ calls[1].fn = "loadTags"
    /\ calls[2].fn = "loadTags"
    /\ calls[1].arg = calls[2].arg
    /\ calls[1].sent
    /\ ~calls[2].sent
    /\ opQueue = <<2>>

\* C29: right after clearImageCache(repository, tag) the key is in neither
\* the cache nor imageInfos nor manifests; a loadImageInfo that finds it in
\* none of them calls the registry client; and an unexpired cache entry is
\* changed or removed by no step other than a clear.
C29_RefreshOnlyByClear ==
    /\ [](lastReturn.fn = "clearImageCache" =>
            /\ ("registry_lens_cache:image_info:" \o lastReturn.arg) \notin DOMAIN localStorage
            /\ lastReturn.arg \notin DOMAIN state.imageInfos
            /\ lastReturn.arg \notin DOMAIN state.manifests)
    /\ [][\A r \in OrchRepositories, t \in TagNames :
               (/\ Configured
                /\ (r \o ":" \o t) \notin DOMAIN state.imageInfos
                /\ ("registry_lens_cache:image_info:" \o r \o ":" \o t)
                       \notin DOMAIN localStorage
                /\ lastReturn'.fn \in {"none", "loadImageInfo"}
                /\ LoadImageInfo(r, t))
               => StartsOwnCall("loadImageInfo", r \o ":" \o t)]_invoked
    /\ [][\A k \in DOMAIN localStorage :
               (Unexpired(k) /\ lastReturn'.fn \notin {"clearImageCache", "clearCache"})
               => (k \in DOMAIN localStorage' /\ localStorage'[k] = localStorage[k])
         ]_localStorage

\* C30: expiry is lazy. An entry whose TTL has elapsed stays in localStorage
\* and among the keys getStats counts until a get of that same key, a clear
\* of that key or clearAll removes it: no other operation and no passage of
\* time removes it, and a get of one key leaves the entries of every other
\* key as they are.
ExpiredEntry(key) ==
    /\ key \in CacheKeysOf(localStorage)
    /\ ~ParseThrows(localStorage[key])
    /\ Expired(Parse(localStorage[key]), DateNow)

StillCounted(key) ==
    /\ key \in DOMAIN localStorage'
    /\ key \in getStats(localStorage').keys
    /\ getStats(localStorage').count = Cardinality(CacheKeysOf(localStorage'))

C30_LazyExpiry ==
    /\ [][\A k \in DOMAIN localStorage :
               ExpiredEntry(k) =>
                   \/ StillCounted(k)
                   \/ CacheGet(k)
                   \/ CacheClear(k)
                   \/ ClearAll
         ]_localStorage
    /\ [][now' # now => localStorage' = localStorage]_<<now, localStorage>>
    /\ [][\A k \in DOMAIN localStorage :
               (lastGet'.key # Null /\ lastGet'.key # k)
               => (k \in DOMAIN localStorage' /\ localStorage'[k] = localStorage[k])
         ]_localStorage

\* a get has just returned while another key holds an expired entry, which
\* getStats still counts
C30_Witness ==
    /\ lastGet.key # Null
    /\ \E k \in DOMAIN localStorage :
           /\ k # lastGet.key
           /\ ExpiredEntry(k)
           /\ k \in getStats(localStorage).keys

\* C31: whenever the throttler is idle (isProcessing = false) between two
\* jobs, the request queue is empty; an entry waits in the queue only while
\* an activation of processQueue is suspended at one of its awaits, for any
\* interleaving of enqueueRequest with task completion and delay expiry.
C31_NoStrandedTask ==
    /\ ~isProcessing => Len(requestQueue) = 0
    /\ Len(requestQueue) > 0 => \E l \in loops : l.pc \in {"awaitTask", "awaitDelay"}
    /\ isProcessing <=> loops # {}

\* the throttler is idle again after a run in which a delay was waited out
\* and an enqueueRequest came after a completion
C31_Witness ==
    /\ ~isProcessing
    /\ Len(tasks) >= 2
    /\ \A i \in 1..Len(tasks) : tasks[i].status = "done"
    /\ delays >= 1
    /\ lateEnqueue

\* C32: when loadTags(repository) fails on the network, state.tags[repository]
\* becomes the empty list and nothing is written to the cache; from then on
\* every loadTags(repository) returns [] without reading the cache or calling
\* the registry, until disconnect resets the state.
EmptyInMemory(r) == r \in DOMAIN state.tags /\ state.tags[r] = EmptyList

\* the call of registryApi.getTags that the invocation c of loadTags awaits fails
TagsFetchFails(c) ==
    /\ calls[c].fn = "loadTags"
    /\ calls[c].sent
    /\ lastReturn'.fn = "loadTags"
    /\ OpSettles(c, FALSE)

FailureMemoised ==
    [][\A c \in Slots :
          TagsFetchFails(c) =>
              /\ calls[c].arg \in DOMAIN state'.tags
              /\ state'.tags[calls[c].arg] = EmptyList
              /\ lastReturn'.value = EmptyList
              /\ localStorage' = localStorage
      ]_calls

ServedEmptyFromMemory ==
    [][\A r \in OrchRepositories :
          (EmptyInMemory(r) /\ lastReturn'.fn \in {"none", "loadTags"} /\ LoadTags(r)) =>
              /\ lastReturn'.fn = "loadTags"
              /\ lastReturn'.value = EmptyList
              /\ lastReturn'.network = 0
              /\ localStorage' = localStorage
              /\ calls' = calls
              /\ opQueue' = opQueue
      ]_invoked

\* a load of the same repository that was started before the failure and
\* settles after it
SameLoadInFlight(r) ==
    \E c \in Slots :
        /\ calls[c].fn = "loadTags"
        /\ calls[c].arg = r
        /\ calls'[c] = NoCall

C32_EmptyUntilDisconnect ==
    /\ FailureMemoised
    /\ ServedEmptyFromMemory
    /\ [][\A r \in OrchRepositories :
              EmptyInMemory(r) =>
                  \/ r \in DOMAIN state'.tags /\ state'.tags[r] = EmptyList
                  \/ lastReturn'.fn = "disconnect"
          ]_state

\* amended: the empty list also ends when a loadTags of the same repository
\* that was already under way completes
C32_EmptyUntilDisconnectOrLoadInFlight ==
    /\ FailureMemoised
    /\ ServedEmptyFromMemory
    /\ [][\A r \in OrchRepositories :
              EmptyInMemory(r) =>
                  \/ r \in DOMAIN state'.tags /\ state'.tags[r] = EmptyList
                  \/ lastReturn'.fn = "disconnect"
                  \/ lastReturn'.fn = "loadTags" /\ SameLoadInFlight(r)
          ]_state

\* a loadTags has just returned [] from memory, with no call of the registry
C32_Witness ==
    /\ lastReturn.fn = "loadTags"
    /\ lastReturn.value = EmptyList
    /\ lastReturn.network = 0
    /\ lastReturn.arg \in DOMAIN state.tags
    /\ state.tags[lastReturn.arg] = EmptyList

\* C33: once disconnect has completed, state.repositories, state.tags,
\* state.manifests and state.imageInfos stay empty until the next connect or
\* reconnect, even when a loadRepositories / loadTags / loadImageInfo that
\* was started before the disconnect completes after it.
MemoryEmpty(st) ==
    /\ st.repositories = EmptyList
    /\ st.tags = <<>>
    /\ st.manifests = <<>>
    /\ st.imageInfos = <<>>

LoadFns == {"loadRepositories", "loadTags", "loadImageInfo"}

\* a load that was suspended completes, and no other invocation moves
LoadCompletes ==
    \E c \in Slots :
        /\ calls[c].fn \in LoadFns
        /\ calls'[c] = NoCall
        /\ \A d \in Slots \ {c} : calls'[d] = calls[d]

C33_EmptyAfterDisconnect ==
    [][(lastReturn.fn = "disconnect" /\ MemoryEmpty(state) /\ LoadCompletes)
           => MemoryEmpty(state')
      ]_state

\* C34: a throttled request reads the credentials when it is dequeued and
\* executed, not when it was enqueued. Dequeued after disconnect has cleared
\* the credentials, it fails with 'Registry URL not configured' and no HTTP
\* call is issued; dequeued after the credentials were replaced, it is sent
\* to the new registry.
Dequeued(c) ==
    /\ opQueue # <<>>
    /\ c = Head(opQueue)
    /\ opQueue' = Tail(opQueue)

C34_CredentialsReadAtDequeue ==
    [][\A c \in Slots :
          Dequeued(c) =>
              IF Configured
              THEN /\ calls'[c].sent
                   /\ calls'[c].url = GetCredentials
                   /\ lastReturn'.fn = "none"
              ELSE /\ calls'[c] = NoCall
                   /\ \A d \in Slots : calls'[d].sent => calls[d].sent
                   /\ lastReturn'.fn = calls[c].fn
                   /\ state'.error = NOT_CONFIGURED
      ]_calls

\* a catalog call that was enqueued with one registry in the credentials has
\* been sent to the registry that a later connect put there
C34_Witness ==
    \E c \in Slots :
        /\ calls[c].sent
        /\ calls[c].awaits = "catalog"
        /\ calls[c].enqueuedWith # Null
        /\ calls[c].url # calls[c].enqueuedWith
        /\ calls[c].url = GetCredentials

\* C35: loadTags and loadImageInfo look at the in-memory state before the
\* cache: a load of a key that state.tags / state.imageInfos holds returns
\* that value with no cache read and no registry call, also when clearCache
\* has emptied the cache or the entry's TTL has elapsed. loadRepositories
\* has no such short-circuit: it reads the cache on every call.
ServedFromMemory(fn, value) ==
    /\ lastReturn'.fn = fn
    /\ lastReturn'.value = value
    /\ lastReturn'.network = 0
    /\ localStorage' = localStorage
    /\ calls' = calls
    /\ opQueue' = opQueue
    /\ state' = state

C35_MemoryBeforeCache ==
    /\ [][\A r \in OrchRepositories :
              (/\ r \in DOMAIN state.tags
               /\ lastReturn'.fn \in {"none", "loadTags"}
               /\ LoadTags(r))
              => ServedFromMemory("loadTags", state.tags[r])
         ]_invoked
    /\ [][\A r \in OrchRepositories, t \in TagNames :
              (/\ ImageKey(r, t) \in DOMAIN state.imageInfos
               /\ lastReturn'.fn \in {"none", "loadImageInfo"}
               /\ LoadImageInfo(r, t))
              => ServedFromMemory("loadImageInfo", state.imageInfos[ImageKey(r, t)])
         ]_invoked
    /\ [][(lastReturn'.fn \in {"none", "loadRepositories"} /\ LoadRepositories) =>
              IF Unexpired(RepositoriesKey)
              THEN /\ state'.repositories = CachedValue(RepositoriesKey)
                   /\ lastReturn'.fn = "loadRepositories"
                   /\ lastReturn'.network = 0
                   /\ calls' = calls
              ELSE /\ RepositoriesKey \notin DOMAIN localStorage'
                   /\ \/ lastReturn'.fn = "loadRepositories" /\ lastReturn'.network = 1
                      \/ StartsOwnCall("loadRepositories", Null)
         ]_invoked

\* a loadTags has just returned the list held in memory although the cache
\* holds no entry for the repository any more
C35_Witness ==
    /\ lastReturn.fn = "loadTags"
    /\ lastReturn.network = 0
    /\ lastReturn.value # EmptyList
    /\ lastReturn.arg \in DOMAIN state.tags
    /\ lastReturn.value = state.tags[lastReturn.arg]
    /\ TagsKey(lastReturn.arg) \notin DOMAIN localStorage

\* C36: loadImageInfo writes to the cache whatever getImageInfo resolves
\* with, also the result that a failed sub-manifest or config-blob fetch
\* leaves without config and creation date; while that entry has not
\* expired, loadImageInfo returns it with no further call of the registry.
StoredAsResolved(c) ==
    LET value == ImageInfoText(run.result)
        key == GetKey(IMAGE_INFO, calls[c].arg)
    IN  /\ (run.result.config = JsNull => value = DEGRADED)
        /\ key \in DOMAIN localStorage'
        /\ localStorage'[key] = Stringify([value |-> value, timestamp |-> now])
        /\ calls[c].arg \in DOMAIN state'.imageInfos
        /\ state'.imageInfos[calls[c].arg] = value
        /\ lastReturn'.fn = "loadImageInfo"
        /\ lastReturn'.value = value

DegradedInCache(r, t) ==
    /\ Unexpired(ImageInfoKey(r, t))
    /\ CachedValue(ImageInfoKey(r, t)) = DEGRADED
    /\ ImageKey(r, t) \in DOMAIN state.imageInfos
           => state.imageInfos[ImageKey(r, t)] = DEGRADED

C36_DegradedResultCached ==
    /\ [][\A c \in Slots :
              (/\ calls[c].awaits = "imageInfo"
               /\ calls[c].sent
               /\ run.fn = "getImageInfo"
               /\ run.pc = "returned"
               /\ run' = NoRun)
              => StoredAsResolved(c)
         ]_run
    /\ [][\A r \in OrchRepositories, t \in TagNames :
              (/\ DegradedInCache(r, t)
               /\ lastReturn'.fn \in {"none", "loadImageInfo"}
               /\ LoadImageInfo(r, t))
              => /\ lastReturn'.fn = "loadImageInfo"
                 /\ lastReturn'.value = DEGRADED
                 /\ lastReturn'.network = 0
                 /\ calls' = calls
                 /\ opQueue' = opQueue
                 /\ Unexpired(ImageInfoKey(r, t))'
         ]_invoked

\* after a disconnect, and time having passed, a loadImageInfo has returned
\* from the cache the result that a failed fetch left without config
C36_Witness ==
    /\ lastReturn.fn = "loadImageInfo"
    /\ lastReturn.value = DEGRADED
    /\ lastReturn.network = 0
    /\ lastReturn.at = CACHE_TTL
    /\ ~Configured
    /\ run = NoRun

\* C37: one getImageInfo enqueues its throttled calls one after another, each
\* after the one before it has settled: the manifest; for a manifest list
\* with a platform, the manifest of the first platform; then the config
\* blob. That is at most 3 calls for a list and at most 2 for an image; a
\* list without any entry that has a platform takes exactly 1 call, and no
\* blob is asked for after a failed fetch of the platform's manifest.
Ended == run.pc \in {"returned", "rejected"}

C37_CallsInSequence ==
    run.fn = "getImageInfo" =>
        /\ Len(run.asked) = Len(run.fetches) + (IF Ended THEN 0 ELSE 1)
        /\ run.asked[1] = "manifests/tag"
        /\ (Len(run.fetches) > 0 /\ Truthy(run.list)) =>
              /\ Len(run.asked) <= 3
              /\ Len(EntriesWithPlatform(run.served)) = 0 =>
                    Len(run.asked) = 1 /\ Ended
              /\ Len(run.asked) >= 2 =>
                    run.asked[2] = "manifests/" \o EntriesWithPlatform(run.served)[1].digest
              /\ Len(run.asked) = 3 =>
                    /\ run.fetches[2]
                    /\ run.asked[3] = "blobs/" \o run.platformManifest.config.digest
              /\ (Len(run.fetches) >= 2 /\ ~run.fetches[2]) =>
                    Len(run.asked) = 2 /\ Ended
        /\ (Len(run.fetches) > 0 /\ run.fetches[1] /\ ~Truthy(run.list)) =>
              /\ Len(run.asked) <= 2
              /\ Len(run.asked) = 2 =>
                    run.asked[2] = "blobs/" \o run.served.config.digest
        /\ (Len(run.fetches) > 0 /\ ~run.fetches[1]) => Len(run.asked) = 1 /\ Ended

\* three calls made for a list whose first entry has no platform
C37_Witness ==
    /\ run.fn = "getImageInfo"
    /\ run.pc = "returned"
    /\ Len(run.asked) = 3
    /\ Len(run.fetches) = 3
    /\ "platform" \notin DOMAIN run.served.manifests[1]

\* C38: cache keys keep entries apart: a save or a clear of the entry of one
\* (namespace, identifier) leaves the result of a get as it was for every
\* other namespace, every other repository and every other (repository, tag)
\* pair, whatever strings the names are.
Subjects ==
    {[ns |-> IMAGE_INFO, repository |-> r, tag |-> t] :
        r \in KeyRepositories, t \in KeyTags}
    \cup {[ns |-> TAGS, repository |-> r, tag |-> Null] : r \in KeyRepositories}
    \cup {[ns |-> REPOSITORIES, repository |-> Null, tag |-> Null]}

KeyOfSubject(s) ==
    IF s.ns = IMAGE_INFO THEN ImageInfoKey(s.repository, s.tag)
    ELSE IF s.ns = TAGS THEN TagsKey(s.repository)
    ELSE RepositoriesKey

Touches(s) ==
    \/ \E v \in Values : CacheSave(KeyOfSubject(s), v)
    \/ CacheClear(KeyOfSubject(s))

GetResult(store, s) == GetOutcome(store, KeyOfSubject(s)).result

C38_KeysIsolateEntries ==
    [][\A s \in Subjects, o \in Subjects :
          (s # o /\ Touches(s)) => GetResult(localStorage', o) = GetResult(localStorage, o)
      ]_localStorage

\* C39: when a catalog page fails, getAllRepositories rejects: the failing
\* call is the last one it issues, and the names gathered before it reach
\* neither the repository list in memory nor the cache; the loadRepositories
\* that awaited it leaves the list and the cache as they were, sets
\* state.error to the message of the error and isLoading to false.
FullList == RepositoriesText([i \in 1..run.names |-> i])

CachedList == GetOutcome(localStorage, RepositoriesKey).result

NoPartialList ==
    /\ state.repositories \in {EmptyList, FullList}
    /\ CachedList \in {Null, FullList}

PageRejected == run.fn = "getAllRepositories" /\ run.pc = "rejected"

C39_FailedPageRejects ==
    /\ [](PageRejected => Len(run.cursors) = Len(run.pages) + 1)
    /\ []NoPartialList
    /\ [][PageRejected =>
            /\ run'.cursors = <<>>
            /\ run'.before.cursors = run.cursors
            /\ lastReturn'.fn \in {"loadRepositories", "connect"}
            /\ state'.repositories = state.repositories
            /\ localStorage' = localStorage
            /\ state'.error = NETWORK_ERROR
            /\ ~state'.isLoading]_run

\* the second page of a catalog of 150 names failed while the list and the
\* cache held the 150 names of an earlier load
C39_Witness ==
    /\ lastReturn.fn = "loadRepositories"
    /\ run.fn = "getAllRepositories"
    /\ run.before.fn = "getAllRepositories"
    /\ run.before.pc = "rejected"
    /\ run.before.cursors = <<0, 100>>
    /\ Len(run.before.repositories) = 100
    /\ state.repositories = "names 1 to 150"
    /\ CachedList = "names 1 to 150"
    /\ state.error = NETWORK_ERROR
    /\ ~state.isLoading

\* C40: when the reachability check of a connect succeeds, isConnected is
\* set to true and the credentials stay; the connect then returns
\* success = true however its load of the repositories ends; when the catalog
\* fetch of that load fails, the only changes to the state are state.error and
\* isLoading, the repository list is empty and the credentials are as they
\* were.
\* the step of connect that follows a successful reachability check: the
\* connect goes on to await the catalog, or its load ends at once and it returns
PingSucceeds(c) ==
    /\ calls[c].fn = "connect"
    /\ calls[c].awaits = "ping"
    /\ calls'[c] # calls[c]
    /\ \/ calls'[c].awaits = "catalog"
       \/ lastReturn'.fn = "connect" /\ lastReturn'.value.success

ConnectReturnsAfterPing(c) ==
    /\ calls[c].fn = "connect"
    /\ calls'[c] = NoCall
    /\ lastReturn'.fn = "connect"
    /\ calls[c].awaits = "catalog" \/ PingSucceeds(c)

ConnectLoadFails(c) ==
    /\ calls[c].fn = "connect"
    /\ calls[c].awaits = "catalog"
    /\ lastReturn'.fn = "connect"
    /\ \/ calls[c].sent /\ OpSettles(c, FALSE)
       \/ ~calls[c].sent /\ ~Configured /\ OpStarts(c)

\* the message of the error: the fetch failed, or request() threw at once
FetchError(c) == IF calls[c].sent THEN NETWORK_ERROR ELSE NOT_CONFIGURED

C40_ConnectSucceedsWithoutList ==
    /\ [][\A c \in Slots : PingSucceeds(c) =>
            /\ state'.isConnected
            /\ credVars' = credVars]_calls
    /\ [][\A c \in Slots : ConnectReturnsAfterPing(c) =>
            /\ lastReturn'.value = [success |-> TRUE]
            /\ credVars' = credVars]_calls
    /\ [][\A c \in Slots : ConnectLoadFails(c) =>
            /\ state' = [state EXCEPT !.error = FetchError(c), !.isLoading = FALSE]
            /\ credVars' = credVars
            /\ state'.repositories = EmptyList]_calls

====
